---- MODULE Spec2Model ----
(***************************************************************************)
(* WebSocketJSONStream: a Duplex stream (node:stream, objectMode,          *)
(* allowHalfOpen=false, emitClose=false) wrapped around a WebSocket-like   *)
(* connection.  The model has three layers:                                *)
(*   - the connection (readyState, listener lists, send, close),           *)
(*   - the engine (the class in websocket-json-stream.ts),                 *)
(*   - the part of node:stream's Duplex that calls the engine's hooks      *)
(*     (_write one at a time, _final after the last write, _destroy once)  *)
(*     and the process.nextTick queue.                                     *)
(* A synchronous call chain of the program is one pure operator over the   *)
(* record of all program state; an action is one turn of the event loop.   *)
(***************************************************************************)
EXTENDS Integers, Sequences, FiniteSets, TLC

VARIABLES
    \* ---- connection (WebSocketLike) ----
    readyState,          \* ws.readyState
    listeners,           \* [message, open, close] -> sequence of listeners
    sent,                \* payloads passed to ws.send, in call order
    closeCalls,          \* (code, reason) passed to ws.close, in call order
    inflight,            \* sends whose completion callback is still to come
    sendSync,            \* transport calls send's callback inside send()
    \* ---- engine fields ----
    emittedClose,        \* _emittedClose
    ending,              \* _ending
    pendingQueue,        \* _pendingQueue (null or array)
    openHandler,         \* _openHandler
    openCloseHandler,    \* _openCloseHandler
    closeWsOpenHandler,  \* _closeWsOpenHandler
    closeWsCloseHandler, \* _closeWsCloseHandler
    \* ---- Duplex (writable side and destroy) ----
    wEnding,             \* writableState.ending
    writecb,             \* id of the write handed to _write (0: none)
    buffered,            \* writes buffered behind the one in _write
    finalCalled,         \* _final has been called
    finalCbCalled,       \* _final's callback has been called
    prefinished,
    finished,
    destroyed,
    destroyCbCalled,     \* _destroy's callback has been called
    errored,             \* writableState.errored
    errorEmitted,
    \* ---- scheduler and what the application observes ----
    ticks,               \* process.nextTick queue
    events,              \* events emitted by the stream, in order
    cbs,                 \* write id -> results its completion callback got
    written,             \* write id -> when stream.write was called (after
                         \* destroy, while CONNECTING, or other) and, unless
                         \* the stream refused the write, its value
    delivered,           \* values pushed downstream
    \* ---- Duplex (readable side) and its consumer ----
    flowing,             \* readableState.flowing: "null", "true" or "false"
    rsync,               \* readableState.sync: no read() has been made yet
    rbuf,                \* readableState.buffer
    dataListener,        \* the consumer has called stream.on('data', ...)
    consumed,            \* values the 'data' listener was called with
    nextW,               \* id of the next stream.write call
    nMsgs,               \* messages dispatched by the connection so far
    \* ---- history ----
    destroyArg,          \* the error destroy() was entered with, once entered
    closedBeforeOpen,    \* the writes pending when a healthy stream's
                         \* connection closed without ever opening
    received,            \* the texts the connection fired 'message' with, and
                         \* whether the stream was destroyed / errored then
    lastPause,           \* consumed count at the last pause() that paused,
                         \* buffered count at the resume() that ended it
    \* ---- adapter (SockJSNodeAdapter / SocketIOAdapter) ----
    adapter,             \* the adapter's maps and the wrapped connection's
                         \* native listeners
    observed,            \* what the adapter's caller asked for and saw
    \* ---- classifier (adaptWebSocket and the three detectors) ----
    classified           \* the connection object, what the detectors
                         \* answered and what adaptWebSocket did with it

engineVars == << readyState, listeners, sent, closeCalls, inflight, sendSync,
           emittedClose, ending, pendingQueue, openHandler,
           openCloseHandler, closeWsOpenHandler, closeWsCloseHandler, wEnding,
           writecb, buffered, finalCalled, finalCbCalled, prefinished,
           finished, destroyed, destroyCbCalled, errored, errorEmitted, ticks,
           events, cbs, written, delivered, nextW, nMsgs, destroyArg,
           closedBeforeOpen, flowing, rsync, rbuf, dataListener, consumed,
           received, lastPause >>

vars == << engineVars, adapter, observed, classified >>

\* ---- bounds ----
MaxWrites == 2
MaxMsgs == 1
\* messages the connection delivers in the read-side specification
MaxReads == 3
\* writes the application makes in the read-side specification
MaxReadWrites == 1
\* addEventListener calls made on an adapter
MaxAdds == 3

\* ---- program constants ----
CONNECTING == 0
OPEN == 1
CLOSING == 2
CLOSED == 3
NORMAL_CLOSURE_CODE == 1000
\* a status outside the four of ReadyState, as a misbehaving adapter reports
UNEXPECTED == 99
NORMAL_CLOSURE_REASON == "stream end"
INTERNAL_ERROR_CODE == 1011
INTERNAL_ERROR_REASON == "stream error"

\* An optional value: <<>> is undefined, <<x>> is x.
Undefined == <<>>
Some(x) == <<x>>
\* a ?? b
Nullish(a, b) == IF a = Undefined THEN b ELSE a[1]

Null == [k |-> "null"]
NoError == [name |-> "null"]

MkError(name, message, code, reason) ==
    [name |-> name, message |-> message, closeCode |-> code, closeReason |-> reason]

ClosedError == MkError("Error [ERR_CLOSED]", "WebSocket CLOSING or CLOSED.", Undefined, Undefined)
SerializeError == MkError("Error", "Can't serialize the value", Undefined, Undefined)
DeserializeError == MkError("Error", "Can't deserialize the value", Undefined, Undefined)
ThrownBySerializer == MkError("TypeError", "Converting circular structure to JSON", Undefined, Undefined)
ThrownByDeserializer == MkError("SyntaxError", "Unexpected token in JSON", Undefined, Undefined)
ERR_STREAM_DESTROYED == MkError("ERR_STREAM_DESTROYED", "Cannot call write after a stream was destroyed", Undefined, Undefined)
ERR_STREAM_WRITE_AFTER_END == MkError("ERR_STREAM_WRITE_AFTER_END", "write after end", Undefined, Undefined)
ERR_MULTIPLE_CALLBACK == MkError("ERR_MULTIPLE_CALLBACK", "Callback called multiple times", Undefined, Undefined)

\* Errors the application passes to destroy(error): with and without the
\* optional closeCode / closeReason of StreamError.
AppErrors ==
    { MkError("Error", "app", c, r) : c \in {Undefined, Some(4000)},
                                      r \in {Undefined, Some("custom")} }

\* ---- codec (jsonSerializer) on the values the model writes and reads ----
\* JavaScript values: the object {msg: i}, an object that refers to itself,
\* and undefined.
Obj(i) == [kind |-> "object", msg |-> i]
Cyclic == [kind |-> "cyclic"]
JsUndefined == [kind |-> "undefined"]

\* the JSON text of {msg: i}
Json(i) == "{\"msg\":" \o ToString(i) \o "}"

\* JSON.stringify: a string, undefined (for undefined), or a throw (cyclic).
serialize(v) ==
    CASE v.kind = "object" -> [threw |-> FALSE, out |-> Some(Json(v.msg))]
      [] v.kind = "undefined" -> [threw |-> FALSE, out |-> Undefined]
      [] OTHER -> [threw |-> TRUE, out |-> Undefined]

\* JSON.parse: a value, null (for "null"), or a throw (malformed text).
deserialize(d) ==
    IF \E i \in 1..(MaxWrites + MaxMsgs + MaxReads) : d = Json(i)
    THEN [threw |-> FALSE,
          out |-> Some(Obj(CHOOSE i \in 1..(MaxWrites + MaxMsgs + MaxReads) : d = Json(i)))]
    ELSE IF d = "null" THEN [threw |-> FALSE, out |-> Undefined]
    ELSE [threw |-> TRUE, out |-> Undefined]

\* what the application passes to its i-th stream.write
Values(i) == {Obj(i), Cyclic, JsUndefined}

\* what the connection delivers as its i-th message
Wire(i) == {Json(i), "null", "{oops"}

\* ---- listeners: the closures the engine registers ----
MessageH == [k |-> "_messageHandler"]
\* a listener another consumer of the connection has registered
ForeignH(i) == [k |-> "foreign", id |-> i]
CloseH == [k |-> "_closeHandler"]
ProcessQueueH == [k |-> "processQueue"]
\* the closure `close` / `closed` of _closeWebSocket, with what it captured
CloseWsH(code, reason, callback) ==
    [k |-> "closeWs", code |-> code, reason |-> reason, callback |-> callback]
FinalCb == [fn |-> "final"]
DestroyCb(error) == [fn |-> "destroy", error |-> error]

RECURSIVE RemoveFirst(_, _)
RemoveFirst(seq, h) ==
    IF seq = <<>> THEN <<>>
    ELSE IF Head(seq) = h THEN Tail(seq)
    ELSE <<Head(seq)>> \o RemoveFirst(Tail(seq), h)

InSeq(seq, h) == \E i \in 1..Len(seq) : seq[i] = h

\* ws.addEventListener(type, h)
addEventListener(s, type, h) ==
    [s EXCEPT !.listeners[type] = Append(@, h)]

\* ws.removeEventListener(type, h)
removeEventListener(s, type, h) ==
    [s EXCEPT !.listeners[type] = RemoveFirst(@, h)]

\* variant: close() is logged and the status stays as it was
wsCloseKeepsStatus(s, code, reason) ==
    [s EXCEPT !.closeCalls = Append(@, [code |-> code, reason |-> reason,
                                        destroyArg |-> s.destroyArg,
                                        during |-> s.during])]

\* ws.close(code, reason): the connection starts closing; its 'close' event
\* comes in a later turn.  The log keeps, with each call, whether and with
\* what error the stream had been destroyed by then, and whether the call
\* was made while the connection was dispatching 'open'.
wsClose(s, code, reason) ==
    [s EXCEPT !.closeCalls = Append(@, [code |-> code, reason |-> reason,
                                        destroyArg |-> s.destroyArg,
                                        during |-> s.during]),
              !.readyState = CLOSING]

Emit(s, ev) == [s EXCEPT !.events = Append(@, ev)]
NextTick(s, task) == [s EXCEPT !.ticks = Append(@, task)]

\* ---- engine: detaching the four self-detaching listeners ----
\* if (this._openHandler) { removeEventListener('open', ...); ... = null }
DetachOpenHandler(s) ==
    IF s.openHandler # Null
    THEN [removeEventListener(s, "open", s.openHandler) EXCEPT !.openHandler = Null]
    ELSE s

DetachOpenCloseHandler(s) ==
    IF s.openCloseHandler # Null
    THEN [removeEventListener(s, "close", s.openCloseHandler)
              EXCEPT !.openCloseHandler = Null]
    ELSE s

\* variant: the shutdown listener of 'open' is never taken off
KeepCloseWsOpenHandler(s) == s

DetachCloseWsOpenHandler(s) ==
    IF s.closeWsOpenHandler # Null
    THEN [removeEventListener(s, "open", s.closeWsOpenHandler)
              EXCEPT !.closeWsOpenHandler = Null]
    ELSE s

\* variant: the shutdown listener of 'close' is never taken off
KeepCloseWsCloseHandler(s) == s

DetachCloseWsCloseHandler(s) ==
    IF s.closeWsCloseHandler # Null
    THEN [removeEventListener(s, "close", s.closeWsCloseHandler)
              EXCEPT !.closeWsCloseHandler = Null]
    ELSE s

\* variant: the long-lived listeners stay attached
KeepLongLived(s) == s

\* variant: every listener for 'message' and 'close' is removed
DetachEveryone(s) ==
    [s EXCEPT !.listeners = [message |-> <<>>, open |-> @.open, close |-> <<>>]]

\* variant: only the close listener is removed, the message listener stays
DetachCloseHandlerOnly(s) == removeEventListener(s, "close", CloseH)

\* removeEventListener('message', _messageHandler); ('close', _closeHandler)
DetachLongLived(s) ==
    removeEventListener(removeEventListener(s, "message", MessageH), "close", CloseH)

\* ---- engine: shutdown sequencing ----
\* variant: the shutdown listeners are never detached by the cleanup
KeepShutdownListeners(s) == s

_cleanupCloseWsHandlers(s) ==
    DetachCloseWsCloseHandler(DetachCloseWsOpenHandler(s))

\* variant: on a CLOSING connection nothing waits for 'close'
CloseWsSwitchNoWait(s, h, code, reason, callback) ==
    CASE s.readyState = CONNECTING ->
           addEventListener(
               addEventListener(
                   [s EXCEPT !.closeWsOpenHandler = h, !.closeWsCloseHandler = h],
                   "open", h),
               "close", h)
      [] s.readyState = OPEN ->
           wsClose(
               addEventListener([s EXCEPT !.closeWsCloseHandler = h], "close", h),
               code, reason)
      [] s.readyState = CLOSING -> s
      [] s.readyState = CLOSED ->
           NextTick(DetachLongLived(s), [t |-> "closed", callback |-> callback])
      [] OTHER ->
           NextTick(s, [t |-> "unexpected", callback |-> callback])

\* variant: under an unknown status the connection is closed all the same
CloseWsSwitchClosesAnyway(s, h, code, reason, callback) ==
    CASE s.readyState = CONNECTING ->
           addEventListener(
               addEventListener(
                   [s EXCEPT !.closeWsOpenHandler = h, !.closeWsCloseHandler = h],
                   "open", h),
               "close", h)
      [] s.readyState \in {OPEN, CLOSING} ->
           CloseWsSwitchNoWait(
               addEventListener([s EXCEPT !.closeWsCloseHandler = h], "close", h),
               h, code, reason, callback)
      [] s.readyState = CLOSED ->
           NextTick(DetachLongLived(s), [t |-> "closed", callback |-> callback])
      [] OTHER ->
           NextTick(wsClose(s, code, reason), [t |-> "unexpected", callback |-> callback])

\* the switch of _closeWebSocket, entered after the cleanup; h is the closure
\* `close` / `closed` that retries with the same arguments
CloseWsSwitch(s, h, code, reason, callback) ==
    CASE s.readyState = CONNECTING ->
           addEventListener(
               addEventListener(
                   [s EXCEPT !.closeWsOpenHandler = h, !.closeWsCloseHandler = h],
                   "open", h),
               "close", h)
      [] s.readyState = OPEN ->
           wsClose(
               addEventListener([s EXCEPT !.closeWsCloseHandler = h], "close", h),
               code, reason)
      [] s.readyState = CLOSING ->
           addEventListener([s EXCEPT !.closeWsCloseHandler = h], "close", h)
      [] s.readyState = CLOSED ->
           NextTick(DetachLongLived(s), [t |-> "closed", callback |-> callback])
      [] OTHER ->
           NextTick(s, [t |-> "unexpected", callback |-> callback])

_closeWebSocket(s, code, reason, callback) ==
    CloseWsSwitch(_cleanupCloseWsHandlers(s), CloseWsH(code, reason, callback),
                  code, reason, callback)

\* variant: _final asks for a close without code and reason
FinalWithoutCode(s) ==
    _closeWebSocket([s EXCEPT !.ending = TRUE], Undefined, Undefined, FinalCb)

_final(s) ==
    _closeWebSocket([s EXCEPT !.ending = TRUE],
                    Some(NORMAL_CLOSURE_CODE), Some(NORMAL_CLOSURE_REASON), FinalCb)

\* ---- Duplex: user callbacks, finishing, destroying ----
LogCb(s, wid, er) == [s EXCEPT !.cbs[wid] = Append(@, er)]

\* variant: the stream may finish while writes are still outstanding
NeedFinishIgnoresWrites(s) ==
    /\ s.wEnding
    /\ ~s.destroyed
    /\ s.errored = NoError
    /\ ~s.finished
    /\ ~s.errorEmitted

needFinish(s) ==
    /\ s.wEnding
    /\ ~s.destroyed
    /\ s.writecb = 0
    /\ s.buffered = <<>>
    /\ s.errored = NoError
    /\ ~s.finished
    /\ ~s.errorEmitted

\* finishMaybe -> prefinish -> callFinal: _final is called once, when the
\* stream is ending and no write is left.
finishMaybe(s) ==
    IF needFinish(s) /\ ~s.prefinished /\ ~s.finalCalled
    THEN _final([s EXCEPT !.finalCalled = TRUE])
    ELSE s

RECURSIVE FailBuffered(_, _, _)
FailBuffered(s, buf, er) ==
    IF buf = <<>> THEN s
    ELSE FailBuffered(LogCb(s, Head(buf).wid, er), Tail(buf), er)

\* errorBuffer: the writes still buffered get the stream's error.
errorBuffer(s) ==
    IF s.writecb # 0 THEN s
    ELSE [FailBuffered(s, s.buffered,
                       IF s.errored # NoError THEN s.errored ELSE ERR_STREAM_DESTROYED)
              EXCEPT !.buffered = <<>>]

RECURSIVE onwrite(_, _, _)
RECURSIVE destroy(_, _)

\* ---- engine: write path ----
\* ws.send(json, callback): the payload goes out; the callback comes inside
\* send() or in a later turn, depending on the transport.
wsSend(s, json, sync) ==
    IF s.sendSync
    THEN onwrite([s EXCEPT !.sent = Append(@, json)], NoError, sync)
    ELSE [s EXCEPT !.sent = Append(@, json),
                   !.inflight = Append(@, [fn |-> "onwrite"])]

\* if (!this._pendingQueue) { ... } of _send
CreateQueue(s) ==
    IF s.pendingQueue.isNull
    THEN addEventListener(
             addEventListener(
                 [s EXCEPT !.pendingQueue = [isNull |-> FALSE, items |-> <<>>],
                           !.openHandler = ProcessQueueH,
                           !.openCloseHandler = ProcessQueueH],
                 "open", ProcessQueueH),
             "close", ProcessQueueH)
    ELSE s

\* variant: only CONNECTING is told apart, every other status sends
SendUnlessConnecting(s, json, sync) ==
    IF s.readyState = CONNECTING
    THEN [CreateQueue(s) EXCEPT !.pendingQueue.items =
                            Append(@, [json |-> json, callback |-> [fn |-> "onwrite"]])]
    ELSE wsSend(s, json, sync)

\* variant: a status outside the four fails with its own error
SendTellsUnexpected(s, json, sync) ==
    IF s.readyState = CONNECTING
    THEN [CreateQueue(s) EXCEPT !.pendingQueue.items =
                            Append(@, [json |-> json, callback |-> [fn |-> "onwrite"]])]
    ELSE IF s.readyState = OPEN
    THEN wsSend(s, json, sync)
    ELSE IF s.readyState \in {CLOSING, CLOSED}
    THEN onwrite(s, ClosedError, sync)
    ELSE onwrite(s, MkError("Error", "Unexpected readyState", Undefined, Undefined), sync)

_send(s, json, sync) ==
    IF s.readyState = CONNECTING
    THEN [CreateQueue(s) EXCEPT !.pendingQueue.items =
                            Append(@, [json |-> json, callback |-> [fn |-> "onwrite"]])]
    ELSE IF s.readyState = OPEN
    THEN wsSend(s, json, sync)
    ELSE onwrite(s, ClosedError, sync)

_write(s, object, sync) ==
    IF serialize(object).threw THEN onwrite(s, ThrownBySerializer, sync)
    ELSE IF serialize(object).out = Undefined THEN onwrite(s, SerializeError, sync)
    ELSE _send(s, serialize(object).out[1], sync)

RECURSIVE SendAll(_, _)
SendAll(s, items) ==
    IF items = <<>> THEN s
    ELSE SendAll(_send(s, Head(items).json, FALSE), Tail(items))

\* variant: the queue is dropped without sending its entries
ForgetQueue(s) == [s EXCEPT !.pendingQueue = [isNull |-> TRUE, items |-> <<>>]]

\* variant: the entries are sent while the queue stays in its field
DrainLeavesQueue(s) ==
    IF s.pendingQueue.isNull THEN s
    ELSE SendAll(s, s.pendingQueue.items)

\* const queue = this._pendingQueue; this._pendingQueue = null; for (...) _send
DrainQueue(s) ==
    IF s.pendingQueue.isNull THEN s
    ELSE SendAll([s EXCEPT !.pendingQueue = [isNull |-> TRUE, items |-> <<>>]],
                 s.pendingQueue.items)

\* variant: the queue is drained with its two listeners left in place
DrainKeepsListeners(s) == DrainQueue(s)

\* processQueue, the listener of 'open' and 'close' created by _send
processQueue(s) ==
    DrainQueue(DetachOpenCloseHandler(DetachOpenHandler(s)))

\* ---- Duplex: the write machinery around _write ----
\* doWrite: hand one write to _write; a callback made inside it is 'sync'.
doWrite(s, w) == _write([s EXCEPT !.writecb = w.wid], w.value, TRUE)

RECURSIVE ClearLoop(_)
ClearLoop(s) ==
    IF s.buffered = <<>> \/ s.writecb # 0 THEN s
    ELSE ClearLoop(doWrite([s EXCEPT !.buffered = Tail(@)], Head(s.buffered)))

\* clearBuffer: hand over buffered writes until one stays in flight.
clearBuffer(s) ==
    IF s.destroyed \/ s.bufferProcessing \/ s.buffered = <<>> THEN s
    ELSE [ClearLoop([s EXCEPT !.bufferProcessing = TRUE])
              EXCEPT !.bufferProcessing = FALSE]

\* variant: the error is left with the callback, the stream stays as it is
ErrorWithoutDestroy(s, err) == s

\* errorOrDestroy with autoDestroy (the default)
errorOrDestroy(s, err) == IF s.destroyed THEN s ELSE destroy(s, err)

ErrorBufferIfDestroyed(s) == IF s.destroyed THEN errorBuffer(s) ELSE s

afterWrite(s, wid) ==
    finishMaybe(ErrorBufferIfDestroyed(LogCb(s, wid, NoError)))

onwriteError(s, er, wid) ==
    errorOrDestroy(errorBuffer(LogCb(s, wid, er)), er)

\* onwrite once the write in flight (wid) is taken off the state
Settle(s, wid, er, sync) ==
    IF er # NoError
    THEN IF sync
         THEN NextTick([s EXCEPT !.errored = IF @ = NoError THEN er ELSE @],
                       [t |-> "onwriteError", er |-> er, wid |-> wid])
         ELSE onwriteError([s EXCEPT !.errored = IF @ = NoError THEN er ELSE @],
                           er, wid)
    ELSE IF sync
         THEN NextTick(clearBuffer(s), [t |-> "afterWrite", wid |-> wid])
         ELSE afterWrite(clearBuffer(s), wid)

\* state.onwrite: the callback the engine gets for every _write
onwrite(s, er, sync) ==
    IF s.writecb = 0 THEN errorOrDestroy(s, ERR_MULTIPLE_CALLBACK)
    ELSE Settle([s EXCEPT !.writecb = 0], s.writecb, er, sync)

\* ---- engine: destroy ----
RECURSIVE FailAll(_, _)
FailAll(s, items) ==
    IF items = <<>> THEN s
    ELSE FailAll(onwrite(s, ClosedError, FALSE), Tail(items))

\* variant: the queue is dropped without calling its callbacks
DropPending(s) == [s EXCEPT !.pendingQueue = [isNull |-> TRUE, items |-> <<>>]]

\* if (this._pendingQueue) { ...; for (const item of queue) item.callback(closeError) }
FailPending(s) ==
    IF ~s.pendingQueue.isNull
    THEN FailAll([s EXCEPT !.pendingQueue = [isNull |-> TRUE, items |-> <<>>]],
                 s.pendingQueue.items)
    ELSE s

\* variant: every destroy closes with the internal-error code
DestroyCodeAlways(error) == Some(INTERNAL_ERROR_CODE)

\* the close code and reason _destroy computes from its error
DestroyCode(error) ==
    IF error # NoError
    THEN Some(Nullish(error.closeCode, INTERNAL_ERROR_CODE))
    ELSE Undefined

\* variant: the reason is taken from the error only when it also has a code
DestroyReasonTied(error) ==
    IF error # NoError
    THEN IF error.closeCode # Undefined /\ error.closeReason # Undefined
         THEN error.closeReason
         ELSE Some(INTERNAL_ERROR_REASON)
    ELSE Undefined

DestroyReason(error) ==
    IF error # NoError
    THEN Some(Nullish(error.closeReason, INTERNAL_ERROR_REASON))
    ELSE Undefined

\* variant: _destroy leaves the pending queue and its listeners in place
DestroyKeepsQueue(s, error) ==
    _closeWebSocket(
        DetachCloseWsCloseHandler(DetachCloseWsOpenHandler(DetachLongLived(s))),
        DestroyCode(error), DestroyReason(error), DestroyCb(error))

\* variant: the error is reported as soon as _destroy is entered
DestroyReportsAtOnce(s, error) ==
    NextTick(
        _closeWebSocket(
            DetachCloseWsCloseHandler(
                DetachCloseWsOpenHandler(
                    FailPending(
                        DetachOpenCloseHandler(
                            DetachOpenHandler(
                                DetachLongLived(s)))))),
            DestroyCode(error), DestroyReason(error), DestroyCb(error)),
        [t |-> "emitErrorClose", err |-> error])

_destroy(s, error) ==
    _closeWebSocket(
        DetachCloseWsCloseHandler(
            DetachCloseWsOpenHandler(
                FailPending(
                    DetachOpenCloseHandler(
                        DetachOpenHandler(
                            DetachLongLived(s)))))),
        DestroyCode(error), DestroyReason(error), DestroyCb(error))

\* Duplex.destroy(err): _destroy is called once per stream
destroy(s, err) ==
    IF s.destroyed THEN s
    ELSE _destroy([s EXCEPT !.destroyed = TRUE,
                            !.destroyArg = Some(err),
                            !.errored = IF err # NoError /\ @ = NoError THEN err ELSE @],
                  err)

\* ---- engine: the two long-lived listeners ----
\* ---- Duplex: the readable side ----
\* stream.pause()
pause(s) ==
    IF s.flowing # "false"
    THEN [s EXCEPT !.flowing = "false",
                   !.lastPause = Some([at |-> Len(s.consumed),
                                       resumedWith |-> Undefined])]
    ELSE s

\* the consumer's 'data' listener: it keeps the value, and calls
\* stream.pause() when it has received pauseAt values
emitData(s, value) ==
    IF Len(s.consumed) + 1 = s.pauseAt
    THEN pause([s EXCEPT !.consumed = Append(@, value)])
    ELSE [s EXCEPT !.consumed = Append(@, value)]

ResumeScheduled(s) == \E i \in 1..Len(s.ticks) : s.ticks[i].t = "resume_"

NoteResume(s) ==
    IF s.lastPause # Undefined
    THEN [s EXCEPT !.lastPause = Some([@[1] EXCEPT !.resumedWith = Some(Len(s.rbuf))])]
    ELSE s

\* stream.resume(): flowing again, the buffer is flushed by resume_ in a
\* later process.nextTick turn
resume(s) ==
    IF s.flowing # "true"
    THEN IF ResumeScheduled(s)
         THEN [NoteResume(s) EXCEPT !.flowing = "true"]
         ELSE NextTick([NoteResume(s) EXCEPT !.flowing = "true"], [t |-> "resume_"])
    ELSE s

\* stream.on('data', listener)
onData(s) ==
    IF s.flowing # "false"
    THEN resume([s EXCEPT !.dataListener = TRUE])
    ELSE [s EXCEPT !.dataListener = TRUE]

\* stream.read() in flowing mode: one buffered value, emitted as 'data'
\* unless 'error' or 'close' went out already
readOne(s) ==
    IF ~s.errorEmitted /\ ~s.destroyCbCalled
    THEN emitData([s EXCEPT !.rbuf = Tail(@)], Head(s.rbuf))
    ELSE [s EXCEPT !.rbuf = Tail(@)]

\* variant: flow hands out one value and stops
FlowOne(s) ==
    IF s.flowing = "true" /\ s.rbuf # <<>> THEN readOne(s) ELSE s

\* flow: while (state.flowing && stream.read() !== null);
RECURSIVE flow(_)
flow(s) ==
    IF s.flowing = "true" /\ s.rbuf # <<>> THEN flow(readOne(s)) ELSE s

\* resume_: read(0), which calls _read (empty in the engine), then flow
resume_(s) == flow([s EXCEPT !.rsync = FALSE])

\* variant: the value is put in front of the buffered ones
AddChunkFront(s, value) ==
    IF s.flowing = "true" /\ s.rbuf = <<>> /\ ~s.rsync /\ s.dataListener
    THEN emitData(s, value)
    ELSE [s EXCEPT !.rbuf = <<value>> \o @]

\* addChunk: straight to the 'data' listener when flowing with an empty
\* buffer, else into the buffer
addChunk(s, value) ==
    IF s.flowing = "true" /\ s.rbuf = <<>> /\ ~s.rsync /\ s.dataListener
    THEN emitData(s, value)
    ELSE [s EXCEPT !.rbuf = Append(@, value)]

\* this.push(value): refused once the stream is destroyed or errored
push(s, value) ==
    IF s.destroyed \/ s.errored # NoError THEN s
    ELSE addChunk([s EXCEPT !.delivered = Append(@, value)], value)

\* variant: a null result is dropped instead of being fatal
MessageHandlerSkipsNull(s, data) ==
    IF deserialize(data).threw THEN destroy(s, ThrownByDeserializer)
    ELSE IF deserialize(data).out = Undefined THEN s
    ELSE push(s, deserialize(data).out[1])

_messageHandler(s, data) ==
    IF deserialize(data).threw THEN destroy(s, ThrownByDeserializer)
    ELSE IF deserialize(data).out = Undefined THEN destroy(s, DeserializeError)
    ELSE push(s, deserialize(data).out[1])

\* variant: the test of _ending is inverted
CloseHandlerInverted(s) == IF s.ending THEN destroy(s, NoError) ELSE s

_closeHandler(s) == IF ~s.ending THEN destroy(s, NoError) ELSE s

\* ---- connection: event dispatch ----
CallListener(s, h, data) ==
    CASE h.k = "_messageHandler" -> _messageHandler(s, data)
      [] h.k = "_closeHandler" -> _closeHandler(s)
      [] h.k = "processQueue" -> processQueue(s)
      [] h.k = "closeWs" ->
           _closeWebSocket(_cleanupCloseWsHandlers(s), h.code, h.reason, h.callback)
      [] h.k = "foreign" -> s

\* The listeners registered when the event fires are called in registration
\* order.  A transport that dispatches over a copy of its listener list (an
\* event emitter, the test mock) calls all of them; one that dispatches over
\* the live list (a DOM event target) skips a listener that an earlier one
\* has removed.  Which of the two happens is open at every dispatch.
RECURSIVE DispatchTo(_, _, _, _)
DispatchTo(s, type, hs, data) ==
    IF hs = <<>> THEN s
    ELSE DispatchTo(IF s.snapshotDispatch \/ InSeq(s.listeners[type], Head(hs))
                    THEN CallListener(s, Head(hs), data)
                    ELSE s,
                    type, Tail(hs), data)

Dispatch(s, type, data) == DispatchTo(s, type, s.listeners[type], data)

\* ---- Duplex: callbacks of _final and _destroy, deferred emissions ----
\* onFinish, the callback given to _final
onFinish(s, err) ==
    IF s.finalCbCalled
    THEN errorOrDestroy(s, IF err # NoError THEN err ELSE ERR_MULTIPLE_CALLBACK)
    ELSE IF err # NoError
    THEN errorOrDestroy([s EXCEPT !.finalCbCalled = TRUE], err)
    ELSE IF needFinish(s)
    THEN NextTick([s EXCEPT !.finalCbCalled = TRUE, !.prefinished = TRUE],
                  [t |-> "finish"])
    ELSE [s EXCEPT !.finalCbCalled = TRUE]

\* onDestroy, the callback given to _destroy.  With emitClose=false the
\* deferred emitCloseNT emits nothing, so only the error emission is queued.
onDestroy(s, err) ==
    IF s.destroyCbCalled THEN s
    ELSE IF err # NoError
    THEN NextTick([s EXCEPT !.destroyCbCalled = TRUE,
                            !.errored = IF @ = NoError THEN err ELSE @],
                  [t |-> "emitErrorClose", err |-> err])
    ELSE [s EXCEPT !.destroyCbCalled = TRUE]

\* callback(arg) for the callback a shutdown request carries: _final's
\* callback, or _destroy's `() => callback(error)`
CallCallback(s, callback, arg) ==
    IF callback.fn = "final" THEN onFinish(s, arg)
    ELSE onDestroy(s, callback.error)

UnexpectedReadyState == MkError("Error", "Unexpected readyState", Undefined, Undefined)

\* variant: 'close' is emitted without looking at _emittedClose
EmitCloseAlways(s) ==
    Emit([s EXCEPT !.emittedClose = TRUE],
         [ev |-> "close", after |-> s.finalCbCalled \/ s.destroyCbCalled])

\* if (!this._emittedClose) { this._emittedClose = true; this.emit('close') }
\* The event keeps what a 'close' listener finds: whether a completion
\* callback of the stream framework has already been called.
EmitCloseOnce(s) ==
    IF ~s.emittedClose
    THEN Emit([s EXCEPT !.emittedClose = TRUE],
              [ev |-> "close", after |-> s.finalCbCalled \/ s.destroyCbCalled])
    ELSE s

\* variant: 'close' is emitted first, the callback is called after it
ClosedTickCloseFirst(s, callback) ==
    CallCallback(EmitCloseOnce(s), callback, NoError)

\* the deferred half of the CLOSED branch:
\* process.nextTick(() => { callback(); if (!this._emittedClose) ... })
ClosedTick(s, callback) == EmitCloseOnce(CallCallback(s, callback, NoError))

\* one task of the process.nextTick queue
RunTask(s, task) ==
    CASE task.t = "closed" -> ClosedTick(s, task.callback)
      [] task.t = "unexpected" -> CallCallback(s, task.callback, UnexpectedReadyState)
      [] task.t = "afterWrite" -> afterWrite(s, task.wid)
      [] task.t = "onwriteError" -> onwriteError(s, task.er, task.wid)
      [] task.t = "writeCb" -> LogCb(s, task.wid, task.er)
      [] task.t = "finish" -> Emit([s EXCEPT !.finished = TRUE], [ev |-> "finish"])
      [] task.t = "resume_" -> resume_(s)
      [] task.t = "emitErrorClose" ->
           IF s.errorEmitted THEN s
           ELSE Emit([s EXCEPT !.errorEmitted = TRUE], [ev |-> "error", error |-> task.err])

\* ---- Duplex: the application's calls ----
\* writeOrBuffer, or the refusal of a write after end() / destroy()
WriteOrBuffer(s, w) ==
    IF s.wEnding
    THEN errorOrDestroy(
             NextTick(s, [t |-> "writeCb", er |-> ERR_STREAM_WRITE_AFTER_END, wid |-> w.wid]),
             ERR_STREAM_WRITE_AFTER_END)
    ELSE IF s.destroyed
    THEN NextTick(s, [t |-> "writeCb", er |-> ERR_STREAM_DESTROYED, wid |-> w.wid])
    ELSE IF s.writecb # 0 \/ s.errored # NoError
    THEN [s EXCEPT !.buffered = Append(@, w)]
    ELSE doWrite(s, w)

\* stream.write(value, cb)
write(s, value) ==
    WriteOrBuffer([s EXCEPT !.nextW = @ + 1,
                            !.written[s.nextW] =
                                Some([value |-> IF s.wEnding \/ s.destroyed
                                                THEN Undefined ELSE Some(value),
                                      when |-> IF s.destroyed THEN "destroyed"
                                               ELSE IF s.readyState = CONNECTING
                                               THEN "connecting"
                                               ELSE "other"])],
                  [wid |-> s.nextW, value |-> value])

\* stream.end()
end(s) ==
    IF s.errored = NoError /\ ~s.wEnding
    THEN finishMaybe([s EXCEPT !.wEnding = TRUE])
    ELSE s

\* ---- the state as one record, and back ----
Cur ==
    [readyState |-> readyState, listeners |-> listeners, sent |-> sent,
     closeCalls |-> closeCalls, inflight |-> inflight, sendSync |-> sendSync,
     emittedClose |-> emittedClose,
     ending |-> ending, pendingQueue |-> pendingQueue, openHandler |-> openHandler,
     openCloseHandler |-> openCloseHandler,
     closeWsOpenHandler |-> closeWsOpenHandler,
     closeWsCloseHandler |-> closeWsCloseHandler, wEnding |-> wEnding,
     writecb |-> writecb, buffered |-> buffered, finalCalled |-> finalCalled,
     finalCbCalled |-> finalCbCalled, prefinished |-> prefinished,
     finished |-> finished, destroyed |-> destroyed,
     destroyCbCalled |-> destroyCbCalled, errored |-> errored,
     errorEmitted |-> errorEmitted, ticks |-> ticks, events |-> events,
     cbs |-> cbs, written |-> written, delivered |-> delivered, nextW |-> nextW,
     nMsgs |-> nMsgs, destroyArg |-> destroyArg,
     closedBeforeOpen |-> closedBeforeOpen, flowing |-> flowing,
     rsync |-> rsync, rbuf |-> rbuf, dataListener |-> dataListener,
     consumed |-> consumed, received |-> received, lastPause |-> lastPause,
     bufferProcessing |-> FALSE, during |-> "call",
     snapshotDispatch |-> FALSE, pauseAt |-> 0]

Becomes(r) ==
    /\ readyState' = r.readyState
    /\ listeners' = r.listeners
    /\ sent' = r.sent
    /\ closeCalls' = r.closeCalls
    /\ inflight' = r.inflight
    /\ sendSync' = r.sendSync
    /\ emittedClose' = r.emittedClose
    /\ ending' = r.ending
    /\ pendingQueue' = r.pendingQueue
    /\ openHandler' = r.openHandler
    /\ openCloseHandler' = r.openCloseHandler
    /\ closeWsOpenHandler' = r.closeWsOpenHandler
    /\ closeWsCloseHandler' = r.closeWsCloseHandler
    /\ wEnding' = r.wEnding
    /\ writecb' = r.writecb
    /\ buffered' = r.buffered
    /\ finalCalled' = r.finalCalled
    /\ finalCbCalled' = r.finalCbCalled
    /\ prefinished' = r.prefinished
    /\ finished' = r.finished
    /\ destroyed' = r.destroyed
    /\ destroyCbCalled' = r.destroyCbCalled
    /\ errored' = r.errored
    /\ errorEmitted' = r.errorEmitted
    /\ ticks' = r.ticks
    /\ events' = r.events
    /\ cbs' = r.cbs
    /\ written' = r.written
    /\ delivered' = r.delivered
    /\ nextW' = r.nextW
    /\ nMsgs' = r.nMsgs
    /\ destroyArg' = r.destroyArg
    /\ closedBeforeOpen' = r.closedBeforeOpen
    /\ flowing' = r.flowing
    /\ rsync' = r.rsync
    /\ rbuf' = r.rbuf
    /\ dataListener' = r.dataListener
    /\ consumed' = r.consumed
    /\ received' = r.received
    /\ lastPause' = r.lastPause
    /\ UNCHANGED << adapter, observed, classified >>

\* ---- adapters: SockJSNodeAdapter and SocketIOAdapter ----
\* the handlers a caller passes to addEventListener / removeEventListener
Handlers == {"h1", "h2"}

\* a closure `(data) => listener({ data })` / `(_reason) => listener()`, a
\* new function at every addEventListener call
Wrapped(h, id) == [fn |-> "wrapped", of |-> h, id |-> id]
\* the caller's handler itself, registered as it is
Bare(h) == [fn |-> "handler", of |-> h, id |-> 0]

NoAdapter == [kind |-> "ws"]
\* registered: the handlers the caller has added and not removed since;
\* cleared: clearAllListeners was called and nothing was added since;
\* event: the last native event and the handlers it called; send: the last
\* send, its inputs and what it did; status: the last read of readyState,
\* the socket's flag then and the value read
NothingObserved ==
    [registered |-> [message |-> {}, close |-> {}, open |-> {}], cleared |-> FALSE,
     event |-> Undefined, send |-> Undefined, status |-> Undefined]

\* new SockJSNodeAdapter(conn) / new SocketIOAdapter(socket); conn holds the
\* native listeners of the wrapped connection ('data' / 'message',
\* 'close' / 'disconnect', 'connection' / 'connect'), connected is the
\* Socket.IO socket's flag
NewAdapter(kind) ==
    [kind |-> kind,
     conn |-> [message |-> <<>>, close |-> <<>>, open |-> <<>>],
     connected |-> TRUE,
     messageListeners |-> [h \in Handlers |-> Undefined],
     closeListeners |-> [h \in Handlers |-> Undefined],
     nextId |-> 1]

\* EventEmitter.on
connOn(a, event, fn) == [a EXCEPT !.conn[event] = Append(@, fn)]

\* EventEmitter.off: the most recently added instance of fn is removed
RECURSIVE RemoveLast(_, _)
RemoveLast(seq, fn) ==
    IF seq = <<>> THEN <<>>
    ELSE IF seq[Len(seq)] = fn THEN SubSeq(seq, 1, Len(seq) - 1)
    ELSE Append(RemoveLast(SubSeq(seq, 1, Len(seq) - 1), fn), seq[Len(seq)])

connOff(a, event, fn) == [a EXCEPT !.conn[event] = RemoveLast(@, fn)]

\* the wrapper addEventListener('close', h) registers: the handler itself
\* in SockJSNodeAdapter, a new closure in SocketIOAdapter
CloseWrapper(a, h) ==
    IF a.kind = "sockjs" THEN Bare(h) ELSE Wrapped(h, a.nextId)

\* get readyState() of SocketIOAdapter
ReadyStateAlwaysOpen(a) == OPEN

Adapter_readyState(a) == IF a.connected THEN 1 ELSE 3

\* a variant that subscribes 'open' listeners to the native connect event
AddListensToOpen(a, type, h) ==
    connOn([a EXCEPT !.nextId = @ + 1],
           type, IF type = "close" THEN CloseWrapper(a, h) ELSE Wrapped(h, a.nextId))

\* addEventListener(type, listener) of both adapters
Adapter_addEventListener(a, type, h) ==
    IF type = "message"
    THEN connOn([a EXCEPT !.messageListeners[h] = Some(Wrapped(h, a.nextId)),
                          !.nextId = @ + 1],
                "message", Wrapped(h, a.nextId))
    ELSE IF type = "close"
    THEN connOn([a EXCEPT !.closeListeners[h] = Some(CloseWrapper(a, h)),
                          !.nextId = @ + 1],
                "close", CloseWrapper(a, h))
    ELSE [a EXCEPT !.nextId = @ + 1]

\* removeEventListener(type, listener) of both adapters
Adapter_removeEventListener(a, type, h) ==
    IF type = "message"
    THEN IF a.messageListeners[h] # Undefined
         THEN [connOff(a, "message", a.messageListeners[h][1])
                   EXCEPT !.messageListeners[h] = Undefined]
         ELSE a
    ELSE IF type = "close"
    THEN IF a.closeListeners[h] # Undefined
         THEN [connOff(a, "close", a.closeListeners[h][1])
                   EXCEPT !.closeListeners[h] = Undefined]
         ELSE a
    ELSE a

\* for (const [, wrapped] of map) socket.off(event, wrapped)
RECURSIVE OffAll(_, _, _, _)
OffAll(a, event, map, hs) ==
    IF hs = {} THEN a
    ELSE OffAll(IF map[CHOOSE h \in hs : TRUE] # Undefined
                THEN connOff(a, event, map[CHOOSE h \in hs : TRUE][1])
                ELSE a,
                event, map, hs \ {CHOOSE h \in hs : TRUE})

\* SocketIOAdapter.clearAllListeners
clearAllListeners(a) ==
    [OffAll(OffAll(a, "message", a.messageListeners, Handlers),
            "close", a.closeListeners, Handlers)
        EXCEPT !.messageListeners = [h \in Handlers |-> Undefined],
               !.closeListeners = [h \in Handlers |-> Undefined]]

\* the handlers a native event of this type calls, in call order
Invoked(a, type) == [i \in 1..Len(a.conn[type]) |-> a.conn[type][i].of]

\* what the caller's completion callback does when it is called
Callbacks == {"none", "returns", "throws"}
NativeError == MkError("Error", "native write failed", Undefined, Undefined)
CallbackError == MkError("Error", "thrown by the callback", Undefined, Undefined)

\* callback?.(arg): the calls made so far, and whether the call threw
CallOptional(out, cb, arg) ==
    IF cb = "none" THEN out
    ELSE [calls |-> Append(out.calls, arg), threw |-> cb = "throws"]

\* send(data, callback) of both adapters:
\* try { native write; callback?.() } catch (error) { callback?.(error) }
Adapter_send(nativeThrows, cb) ==
    IF nativeThrows
    THEN CallOptional([calls |-> <<>>, threw |-> FALSE], cb, NativeError)
    ELSE IF CallOptional([calls |-> <<>>, threw |-> FALSE], cb, NoError).threw
    THEN CallOptional(CallOptional([calls |-> <<>>, threw |-> FALSE], cb, NoError),
                      cb, CallbackError)
    ELSE CallOptional([calls |-> <<>>, threw |-> FALSE], cb, NoError)

\* ---- classifier: the detectors and adaptWebSocket ----
\* a connection object is what `typeof obj.<property>` gives for each
\* property the detectors look at ("undefined" when the property is
\* absent); the three properties tested with !== can also hold a value of
\* another type
ObjectShapes ==
    [readyState : {"undefined", "number", "string"},
     send : {"undefined", "function", "object"},
     addEventListener : {"undefined", "function", "object"},
     removeEventListener : {"undefined", "function"},
     write : {"undefined", "function"},
     close : {"undefined", "function"},
     on : {"undefined", "function"},
     off : {"undefined", "function"},
     id : {"undefined", "string"},
     connected : {"undefined", "boolean"},
     emit : {"undefined", "function"},
     disconnect : {"undefined", "function"}]

\* null and a primitive
NonObjects == {[readyState |-> "null"], [readyState |-> "primitive"]}

Connections == ObjectShapes \cup NonObjects

\* ws === null || typeof ws !== 'object'
NotAnObject(ws) == ws \in NonObjects

NoProperties ==
    [readyState |-> "undefined", send |-> "undefined",
     addEventListener |-> "undefined", removeEventListener |-> "undefined",
     write |-> "undefined", close |-> "undefined", on |-> "undefined",
     off |-> "undefined", id |-> "undefined", connected |-> "undefined",
     emit |-> "undefined", disconnect |-> "undefined"]

\* the representative objects of the detection tests
StandardWebSocket ==
    [NoProperties EXCEPT !.readyState = "number", !.send = "function",
                         !.close = "function", !.addEventListener = "function",
                         !.removeEventListener = "function"]
SockJSConnection ==
    [NoProperties EXCEPT !.readyState = "number", !.write = "function",
                         !.close = "function", !.on = "function",
                         !.off = "function"]
SocketIOSocket ==
    [NoProperties EXCEPT !.id = "string", !.connected = "boolean",
                         !.emit = "function", !.on = "function",
                         !.off = "function", !.disconnect = "function"]

\* a detector without the "lacks send and addEventListener" conjuncts
SockJSWithoutExclusion(ws) ==
    /\ ~NotAnObject(ws)
    /\ ws.readyState = "number"
    /\ ws.write = "function"
    /\ ws.on = "function"
    /\ ws.off = "function"
    /\ ws.close = "function"

isSockJSNodeConnection(ws) ==
    /\ ~NotAnObject(ws)
    /\ ws.readyState = "number"
    /\ ws.write = "function"
    /\ ws.on = "function"
    /\ ws.off = "function"
    /\ ws.close = "function"
    /\ ws.send # "function"
    /\ ws.addEventListener # "function"

isSocketIOSocket(ws) ==
    /\ ~NotAnObject(ws)
    /\ ws.id = "string"
    /\ ws.connected = "boolean"
    /\ ws.emit = "function"
    /\ ws.on = "function"
    /\ ws.off = "function"
    /\ ws.disconnect = "function"
    /\ ws.readyState # "number"
    /\ ws.send # "function"
    /\ ws.addEventListener # "function"

isWebSocketLike(ws) ==
    /\ ~NotAnObject(ws)
    /\ ws.readyState = "number"
    /\ ws.send = "function"
    /\ ws.close = "function"
    /\ ws.addEventListener = "function"
    /\ ws.removeEventListener = "function"

\* the values of the adapterType argument: omitted, the four of
\* AdapterType and one outside it
AdapterTypes == {"ws", "sockjs-node", "socketio", "auto", "unknown"}
AdapterTypeArgs == {Undefined} \cup {Some(a) : a \in AdapterTypes}

UnsupportedError ==
    MkError("Error",
            "Unsupported WebSocket type. Expected a standard WebSocket, sockjs-node connection, or Socket.IO socket.",
            Undefined, Undefined)
UnknownTypeError(adapterType) ==
    MkError("Error", "Unknown adapter type: " \o adapterType, Undefined, Undefined)

\* what adaptWebSocket does: it returns the object it was given, returns a
\* new adapter around it, or throws
ReturnsSame(ws) == [threw |-> NoError, is |-> "same", of |-> ws]
ReturnsNew(class, ws) == [threw |-> NoError, is |-> class, of |-> ws]
Throws(err) == [threw |-> err, is |-> "nothing", of |-> Null]

\* a variant whose 'auto' trusts the object like 'ws' does
AdaptAutoTrusts(ws, adapterType) ==
    IF adapterType \in {"ws", "auto"} THEN ReturnsSame(ws)
    ELSE IF adapterType = "sockjs-node" THEN ReturnsNew("SockJSNodeAdapter", ws)
    ELSE IF adapterType = "socketio" THEN ReturnsNew("SocketIOAdapter", ws)
    ELSE Throws(UnknownTypeError(adapterType))

\* a variant that probes the shape whatever the adapter type
AdaptAlwaysDetects(ws, adapterType) ==
    IF adapterType \notin {"ws", "sockjs-node", "socketio", "auto"}
    THEN Throws(UnknownTypeError(adapterType))
    ELSE IF isWebSocketLike(ws) THEN ReturnsSame(ws)
    ELSE IF isSockJSNodeConnection(ws) THEN ReturnsNew("SockJSNodeAdapter", ws)
    ELSE IF isSocketIOSocket(ws) THEN ReturnsNew("SocketIOAdapter", ws)
    ELSE Throws(UnsupportedError)

\* a variant that falls back to the object itself instead of throwing
AdaptNeverThrows(ws, adapterType) ==
    IF adapterType = "sockjs-node" THEN ReturnsNew("SockJSNodeAdapter", ws)
    ELSE IF adapterType = "socketio" THEN ReturnsNew("SocketIOAdapter", ws)
    ELSE IF adapterType = "auto" /\ isSockJSNodeConnection(ws)
    THEN ReturnsNew("SockJSNodeAdapter", ws)
    ELSE IF adapterType = "auto" /\ isSocketIOSocket(ws)
    THEN ReturnsNew("SocketIOAdapter", ws)
    ELSE ReturnsSame(ws)

\* adaptWebSocket(ws, adapterType), adapterType after the default applied
adaptWebSocket(ws, adapterType) ==
    CASE adapterType = "ws" -> ReturnsSame(ws)
      [] adapterType = "sockjs-node" -> ReturnsNew("SockJSNodeAdapter", ws)
      [] adapterType = "socketio" -> ReturnsNew("SocketIOAdapter", ws)
      [] adapterType = "auto" ->
            IF isWebSocketLike(ws) THEN ReturnsSame(ws)
            ELSE IF isSockJSNodeConnection(ws)
            THEN ReturnsNew("SockJSNodeAdapter", ws)
            ELSE IF isSocketIOSocket(ws)
            THEN ReturnsNew("SocketIOAdapter", ws)
            ELSE Throws(UnsupportedError)
      [] OTHER -> Throws(UnknownTypeError(adapterType))

\* the parameter default: adapterType: AdapterType = 'ws'
DefaultAdapterType(arg) == Nullish(arg, "ws")

\* a connection object nothing was asked about yet
Unclassified(ws) == [ws |-> ws, detected |-> Undefined, adapted |-> Undefined]

\* ---- initial state: new WebSocketJSONStream(ws) on a connection in any
\* of the four states ----
\* `before` are the listeners registered on the connection before the
\* stream is constructed, `after` those registered right after it
InitWith(before, after) ==
    /\ readyState \in {CONNECTING, OPEN, CLOSING, CLOSED}
    /\ listeners = [message |-> before \o <<MessageH>> \o after,
                    open |-> before \o after,
                    close |-> before \o <<CloseH>> \o after]
    /\ sent = <<>>
    /\ closeCalls = <<>>
    /\ inflight = <<>>
    /\ sendSync \in BOOLEAN
    /\ emittedClose = FALSE
    /\ ending = FALSE
    /\ pendingQueue = [isNull |-> TRUE, items |-> <<>>]
    /\ openHandler = Null
    /\ openCloseHandler = Null
    /\ closeWsOpenHandler = Null
    /\ closeWsCloseHandler = Null
    /\ wEnding = FALSE
    /\ writecb = 0
    /\ buffered = <<>>
    /\ finalCalled = FALSE
    /\ finalCbCalled = FALSE
    /\ prefinished = FALSE
    /\ finished = FALSE
    /\ destroyed = FALSE
    /\ destroyCbCalled = FALSE
    /\ errored = NoError
    /\ errorEmitted = FALSE
    /\ ticks = <<>>
    /\ events = <<>>
    /\ cbs = [w \in 1..MaxWrites |-> <<>>]
    /\ written = [w \in 1..MaxWrites |-> Undefined]
    /\ delivered = <<>>
    /\ nextW = 1
    /\ nMsgs = 0
    /\ destroyArg = Undefined
    /\ closedBeforeOpen = Undefined
    /\ flowing = "null"
    /\ rsync = TRUE
    /\ rbuf = <<>>
    /\ dataListener = FALSE
    /\ consumed = <<>>
    /\ received = <<>>
    /\ lastPause = Undefined

\* adaptWebSocket(ws, 'ws'): the connection is used as it is
Direct ==
    /\ adapter = NoAdapter
    /\ observed = NothingObserved
    /\ classified = Unclassified(StandardWebSocket)

Init == InitWith(<<>>, <<>>) /\ Direct

\* ---- actions: one turn each ----
\* the application calls stream.write(value)
Write ==
    /\ nextW <= MaxWrites
    /\ \E value \in Values(nextW) : Becomes(write(Cur, value))

\* the application calls stream.end()
End == /\ ~wEnding
       /\ Becomes(end(Cur))

\* the application calls stream.destroy() or stream.destroy(error)
Destroy ==
    /\ ~destroyed
    /\ \E error \in AppErrors \cup {NoError} : Becomes(destroy(Cur, error))

\* the connection opens and fires 'open'
ConnOpen ==
    /\ readyState = CONNECTING
    /\ \E snapshot \in BOOLEAN :
          Becomes(Dispatch([Cur EXCEPT !.readyState = OPEN,
                                       !.during = "open",
                                       !.snapshotDispatch = snapshot],
                           "open", Undefined))

\* the peer starts the closing handshake
ConnClosing ==
    /\ readyState = OPEN
    /\ readyState' = CLOSING
    /\ UNCHANGED << listeners, sent, closeCalls, inflight, sendSync,
           emittedClose, ending, pendingQueue, openHandler,
           openCloseHandler, closeWsOpenHandler, closeWsCloseHandler, wEnding,
           writecb, buffered, finalCalled, finalCbCalled, prefinished,
           finished, destroyed, destroyCbCalled, errored, errorEmitted, ticks,
           events, cbs, written, delivered, nextW, nMsgs, destroyArg,
           closedBeforeOpen, flowing, rsync, rbuf, dataListener, consumed,
           received, lastPause, adapter, observed, classified >>

\* the writes without a completion yet, when the connection closes from
\* CONNECTING under a stream that is neither destroyed nor errored
PendingIfNeverOpened ==
    IF readyState = CONNECTING /\ ~destroyed /\ errored = NoError
    THEN Some({w \in 1..MaxWrites : written[w] # Undefined /\ cbs[w] = <<>>})
    ELSE closedBeforeOpen

\* the connection reaches CLOSED and fires 'close'
ConnClose ==
    /\ readyState # CLOSED
    /\ \E snapshot \in BOOLEAN :
          Becomes(Dispatch([Cur EXCEPT !.readyState = CLOSED,
                                       !.closedBeforeOpen = PendingIfNeverOpened,
                                       !.snapshotDispatch = snapshot],
                           "close", Undefined))

\* the connection fires 'message'
ConnMessage ==
    /\ readyState \in {OPEN, CLOSING}
    /\ nMsgs < MaxMsgs
    /\ \E data \in Wire(nMsgs + 1), snapshot \in BOOLEAN :
          Becomes(Dispatch([Cur EXCEPT !.nMsgs = @ + 1,
                                       !.snapshotDispatch = snapshot],
                           "message", data))

\* the transport reports that a send has completed
SendComplete ==
    /\ inflight # <<>>
    /\ Becomes(onwrite([Cur EXCEPT !.inflight = Tail(@)], NoError, FALSE))

\* the next process.nextTick task runs
RunTick ==
    /\ ticks # <<>>
    /\ Becomes(RunTask([Cur EXCEPT !.ticks = Tail(@)], Head(ticks)))

Next ==
    \/ Write
    \/ End
    \/ Destroy
    \/ ConnOpen
    \/ ConnClosing
    \/ ConnClose
    \/ ConnMessage
    \/ SendComplete
    \/ RunTick

Spec == Init /\ [][Next]_vars

\* A fair transport and scheduler: weak fairness of each of
\*   RunTick                                   (a queued tick runs),
\*   SendComplete                              (a send completes),
\*   readyState = CONNECTING /\ (ConnOpen \/ ConnClose)
\*                                             (a CONNECTING connection fires
\*                                              'open' or 'close'),
\*   readyState = CLOSING /\ ConnClose         (a CLOSING one fires 'close').
\* WF_vars(A) is written out as []<>(~ENABLED <<A>>_vars) \/ []<><<A>>_vars
\* with ENABLED replaced by the guard of the action, which is all that
\* decides whether these actions can take a step.
Fairness ==
    /\ []<>(ticks = <<>>) \/ []<><<RunTick>>_vars
    /\ []<>(inflight = <<>>) \/ []<><<SendComplete>>_vars
    /\ \/ []<>(readyState # CONNECTING)
       \/ []<><<readyState = CONNECTING /\ (ConnOpen \/ ConnClose)>>_vars
    /\ \/ []<>(readyState # CLOSING)
       \/ []<><<readyState = CLOSING /\ ConnClose>>_vars

FairSpec == Spec /\ Fairness


(***************************************************************************)
(* The stream on a connection whose adapter misbehaves: at some moment its *)
(* status stops being one of the four values of ReadyState.                *)
(***************************************************************************)
\* the connection, OPEN so far, now reports an unknown status
ConnUnexpected ==
    /\ readyState = OPEN
    /\ readyState' = UNEXPECTED
    /\ UNCHANGED << listeners, sent, closeCalls, inflight, sendSync,
           emittedClose, ending, pendingQueue, openHandler,
           openCloseHandler, closeWsOpenHandler, closeWsCloseHandler, wEnding,
           writecb, buffered, finalCalled, finalCbCalled, prefinished,
           finished, destroyed, destroyCbCalled, errored, errorEmitted, ticks,
           events, cbs, written, delivered, nextW, nMsgs, destroyArg,
           closedBeforeOpen, flowing, rsync, rbuf, dataListener, consumed,
           received, lastPause, adapter, observed, classified >>

UnexpectedNext ==
    \/ Next
    \/ ConnUnexpected

UnexpectedSpec == Init /\ [][UnexpectedNext]_vars

(***************************************************************************)
(* A connection the stream shares with other consumers, which registered   *)
(* one listener per event before the stream was built and one after.       *)
(***************************************************************************)
SharedInit == InitWith(<<ForeignH(1)>>, <<ForeignH(2)>>) /\ Direct

SharedSpec == SharedInit /\ [][Next]_vars

(***************************************************************************)
(* The read side: a stream on an OPEN connection and its consumer, which   *)
(* attaches a 'data' listener, pauses and resumes.                         *)
(***************************************************************************)
ReadInit == Init /\ readyState = OPEN

\* the consumer calls stream.on('data', listener)
OnData ==
    /\ ~dataListener
    /\ Becomes(onData(Cur))

\* the consumer calls stream.pause() outside its listener
Pause ==
    /\ flowing # "false"
    /\ Becomes(pause(Cur))

\* the consumer calls stream.resume()
Resume ==
    /\ dataListener
    /\ flowing # "true"
    /\ Becomes(resume(Cur))

\* the connection fires 'message'; the consumer's listener calls
\* stream.pause() on its pauseAt-th value (0: it never does)
ReadMessage ==
    /\ readyState \in {OPEN, CLOSING}
    /\ nMsgs < MaxReads
    /\ \E data \in Wire(nMsgs + 1), pauseAt \in 0..MaxReads :
          Becomes([Dispatch([Cur EXCEPT !.nMsgs = @ + 1, !.pauseAt = pauseAt],
                            "message", data)
                      EXCEPT !.received =
                          Append(@, [data |-> data, live |-> ~destroyed,
                                     failed |-> errored # NoError])])

\* the next process.nextTick task runs
ReadTick ==
    /\ ticks # <<>>
    /\ \E pauseAt \in 0..MaxReads :
          Becomes(RunTask([Cur EXCEPT !.ticks = Tail(@), !.pauseAt = pauseAt],
                          Head(ticks)))

\* the application calls stream.write(value)
ReadWrite ==
    /\ nextW <= MaxReadWrites
    /\ \E value \in Values(nextW) : Becomes(write(Cur, value))

ReadNext ==
    \/ OnData
    \/ Pause
    \/ Resume
    \/ ReadMessage
    \/ ReadTick
    \/ ReadWrite
    \/ SendComplete

ReadSpec == ReadInit /\ [][ReadNext]_vars

(***************************************************************************)
(* The adapters on their own: a caller registers and removes handlers,     *)
(* sends, and the wrapped connection fires its native events.              *)
(***************************************************************************)
AdapterInit ==
    /\ InitWith(<<>>, <<>>)
    /\ readyState = OPEN
    /\ sendSync = TRUE
    /\ adapter \in {NewAdapter("sockjs"), NewAdapter("socketio")}
    /\ observed = NothingObserved
    /\ classified = Unclassified(IF adapter.kind = "sockjs"
                                 THEN SockJSConnection ELSE SocketIOSocket)

\* adapter.addEventListener(type, h)
AddListener ==
    /\ adapter.nextId <= MaxAdds
    /\ \E type \in {"message", "close", "open"}, h \in Handlers :
          /\ adapter' = Adapter_addEventListener(adapter, type, h)
          /\ observed' = [NothingObserved EXCEPT
                             !.registered =
                                 [observed.registered EXCEPT ![type] = @ \cup {h}]]
    /\ UNCHANGED << engineVars, classified >>

\* adapter.removeEventListener(type, h)
RemoveListener ==
    /\ \E type \in {"message", "close", "open"}, h \in Handlers :
          /\ adapter' = Adapter_removeEventListener(adapter, type, h)
          /\ observed' = [NothingObserved EXCEPT
                             !.registered =
                                 [observed.registered EXCEPT ![type] = @ \ {h}],
                             !.cleared = observed.cleared]
    /\ UNCHANGED << engineVars, classified >>

\* adapter.clearAllListeners(), which only SocketIOAdapter has
ClearAll ==
    /\ adapter.kind = "socketio"
    /\ adapter' = clearAllListeners(adapter)
    /\ observed' = [NothingObserved EXCEPT !.cleared = TRUE]
    /\ UNCHANGED << engineVars, classified >>

\* the wrapped connection fires 'data' / 'message', 'close' / 'disconnect'
\* or 'connection' / 'connect'
NativeEvent ==
    /\ \E type \in {"message", "close", "open"} :
          observed' = [observed EXCEPT
                          !.event = Some([type |-> type,
                                          invoked |-> Invoked(adapter, type)])]
    /\ UNCHANGED << engineVars, adapter, classified >>

\* adapter.send(data, callback)
Send ==
    /\ \E nativeThrows \in BOOLEAN, cb \in Callbacks :
          observed' = [observed EXCEPT
                          !.send = Some([nativeThrows |-> nativeThrows,
                                         cb |-> cb,
                                         result |-> Adapter_send(nativeThrows, cb)])]
    /\ UNCHANGED << engineVars, adapter, classified >>

\* the Socket.IO socket's connected flag changes
SetConnected ==
    /\ adapter.kind = "socketio"
    /\ \E value \in BOOLEAN : adapter' = [adapter EXCEPT !.connected = value]
    /\ UNCHANGED << engineVars, observed, classified >>

\* adapter.readyState is read (SocketIOAdapter)
ReadStatus ==
    /\ adapter.kind = "socketio"
    /\ observed' = [observed EXCEPT
                       !.status = Some([connected |-> adapter.connected,
                                        value |-> Adapter_readyState(adapter)])]
    /\ UNCHANGED << engineVars, adapter, classified >>

AdapterNext ==
    \/ SetConnected
    \/ ReadStatus
    \/ AddListener
    \/ RemoveListener
    \/ ClearAll
    \/ NativeEvent
    \/ Send

AdapterSpec == AdapterInit /\ [][AdapterNext]_vars

(***************************************************************************)
(* The classifier on its own: any connection object is handed to the three *)
(* detectors and to adaptWebSocket with any adapterType argument.          *)
(***************************************************************************)
ClassifyInit ==
    /\ InitWith(<<>>, <<>>)
    /\ readyState = OPEN
    /\ sendSync = TRUE
    /\ adapter = NoAdapter
    /\ observed = NothingObserved
    /\ classified \in {Unclassified(ws) : ws \in Connections}

\* isWebSocketLike(ws), isSockJSNodeConnection(ws), isSocketIOSocket(ws)
Detect ==
    /\ classified.detected = Undefined
    /\ classified' = [classified EXCEPT
                         !.detected =
                             Some([ws |-> isWebSocketLike(classified.ws),
                                   sockjs |-> isSockJSNodeConnection(classified.ws),
                                   socketio |-> isSocketIOSocket(classified.ws)])]
    /\ UNCHANGED << engineVars, adapter, observed >>

\* adaptWebSocket(ws) / adaptWebSocket(ws, adapterType)
Adapt ==
    /\ classified.adapted = Undefined
    /\ \E arg \in AdapterTypeArgs :
          classified' = [classified EXCEPT
                            !.adapted =
                                Some([arg |-> arg,
                                      result |-> adaptWebSocket(classified.ws,
                                                     DefaultAdapterType(arg))])]
    /\ UNCHANGED << engineVars, adapter, observed >>

ClassifyNext ==
    \/ Detect
    \/ Adapt

ClassifySpec == ClassifyInit /\ [][ClassifyNext]_vars

(***************************************************************************)
(* Properties                                                              *)
(***************************************************************************)
\* positions of the event `name` in the stream's event log
EventAt(name) == {i \in 1..Len(events) : events[i].ev = name}

PlainError == MkError("Error", "app", Undefined, Undefined)

\* C1: under every interleaving of end(), destroy(), destroy(error), remote
\* close, open and incoming messages, the stream emits 'close' at most once,
\* also when an end()-initiated and a destroy()-initiated shutdown both reach
\* the CLOSED branch.
C1_CloseAtMostOnce == Cardinality(EventAt("close")) <= 1

\* both _final's and _destroy's callback have run from the CLOSED branch
C1_Witness == emittedClose /\ finalCbCalled /\ destroyCbCalled

\* C6: once the stream has emitted its terminal 'close', it has no listener
\* left on the connection for 'message', 'close' or 'open'.
C6_NoListenerLeft ==
    emittedClose =>
        listeners = [message |-> <<>>, open |-> <<>>, close |-> <<>>]

\* terminated after writes that made the engine register queue listeners
C6_Witness ==
    /\ emittedClose
    /\ \E w \in 1..MaxWrites :
          written[w] # Undefined /\ written[w][1].when = "connecting"

\* C7: every connection.close the engine makes for a graceful end() (the
\* stream not destroyed) carries code 1000 and reason "stream end", whether
\* the connection was OPEN at end() or CONNECTING and opened later.
C7_EndClosesWith1000 ==
    \A i \in 1..Len(closeCalls) :
        closeCalls[i].destroyArg = Undefined =>
            /\ closeCalls[i].code = Some(1000)
            /\ closeCalls[i].reason = Some("stream end")

\* end() came while CONNECTING and the close was made when 'open' fired
C7_Witness ==
    \E i \in 1..Len(closeCalls) :
        closeCalls[i].destroyArg = Undefined /\ closeCalls[i].during = "open"

\* C8: destroy() without an error calls connection.close with neither code
\* nor reason; destroy(error) with an error that has no closeCode and no
\* closeReason calls it with 1011 and "stream error".
C8_DestroyCloseArgs ==
    \A i \in 1..Len(closeCalls) :
        /\ closeCalls[i].destroyArg = Some(NoError) =>
               closeCalls[i].code = Undefined /\ closeCalls[i].reason = Undefined
        /\ closeCalls[i].destroyArg = Some(PlainError) =>
               /\ closeCalls[i].code = Some(1011)
               /\ closeCalls[i].reason = Some("stream error")

C8_Witness ==
    \E i \in 1..Len(closeCalls) : closeCalls[i].destroyArg = Some(PlainError)

\* C9: destroy(error) calls connection.close with the error's closeCode and
\* closeReason; each field that the error lacks falls back on its own to
\* 1011 / "stream error".
C9_CloseArgsFromError ==
    \A i \in 1..Len(closeCalls) :
        \A c \in {Undefined, Some(4000)}, r \in {Undefined, Some("custom")} :
            closeCalls[i].destroyArg = Some(MkError("Error", "app", c, r)) =>
                /\ closeCalls[i].code = Some(IF c = Undefined THEN 1011 ELSE 4000)
                /\ closeCalls[i].reason =
                       Some(IF r = Undefined THEN "stream error" ELSE "custom")

\* the error had a reason but no code
C9_Witness ==
    \E i \in 1..Len(closeCalls) :
        closeCalls[i].destroyArg = Some(MkError("Error", "app", Undefined, Some("custom")))

\* C2: once termination has been triggered (end(), destroy(), destroy(error),
\* or a remote close, which destroys the stream in the turn it is dispatched
\* unless the stream is already ending), the stream eventually emits 'close',
\* given a fair transport, from every starting status.
C2_EventuallyClose == (wEnding \/ destroyed) ~> emittedClose

\* a shutdown that waited for 'open', called connection.close and waited
\* for 'close'
C2_Witness ==
    /\ emittedClose
    /\ \E i \in 1..Len(closeCalls) : closeCalls[i].during = "open"

\* the writes issued while CONNECTING
WrittenConnecting ==
    {w \in 1..MaxWrites : written[w] # Undefined /\ written[w][1].when = "connecting"}

\* the write whose payload is the text d (0: none)
WriteOf(d) ==
    IF \E w \in 1..MaxWrites : d = Json(w)
    THEN CHOOSE w \in 1..MaxWrites : d = Json(w)
    ELSE 0

\* Nothing from outside has disturbed the stream: every value written could
\* be serialized and was accepted, every message received could be
\* deserialized, the application has not called destroy, and the connection
\* is OPEN or has left OPEN by the engine's own close call (which the engine
\* makes only on an OPEN connection).
Undisturbed ==
    /\ \A w \in 1..MaxWrites :
          written[w] # Undefined => written[w][1].value = Some(Obj(w))
    /\ Len(delivered) = nMsgs
    /\ destroyArg \notin {Some(e) : e \in AppErrors \cup {NoError}}
    /\ readyState = OPEN \/ closeCalls # <<>>

C4_ClosedBeforeOpen ==
    closedBeforeOpen # Undefined =>
        /\ sent = <<>>
        /\ \A w \in closedBeforeOpen[1] : cbs[w] = <<ClosedError>>

\* MaxWrites writes were pending when the connection closed
C4_Witness ==
    closedBeforeOpen # Undefined /\ Cardinality(closedBeforeOpen[1]) = MaxWrites

\* C5: after a graceful end() (no destroy, no error), 'finish' is emitted
\* before 'close'.
C5_FinishBeforeClose ==
    (destroyArg = Undefined /\ errored = NoError /\ EventAt("close") # {}) =>
        \E i \in EventAt("finish") : \A j \in EventAt("close") : i < j

\* the writes attempted after destroy was entered
WrittenAfterDestroy ==
    {w \in 1..MaxWrites : written[w] # Undefined /\ written[w][1].when = "destroyed"}

\* the errors node:stream itself gives a write it refuses
RefusedBy == {ERR_STREAM_DESTROYED, ERR_STREAM_WRITE_AFTER_END}

\* C10 as stated: every write attempted after destroy completes with a
\* ClosedError.
C10_AfterDestroyClosedError ==
    \A w \in WrittenAfterDestroy : cbs[w] # <<>> => cbs[w] = <<ClosedError>>

\* what holds of the writes once the stream is destroyed: none attempted
\* afterwards is sent and each gets the error of node:stream's refusal, and
\* when nothing is left to run every write has completed, with an error
\* unless it had been sent
DestroyedWrites ==
    /\ \A w \in WrittenAfterDestroy :
          /\ \A i \in 1..Len(sent) : sent[i] # Json(w)
          /\ cbs[w] = <<>> \/ \E e \in RefusedBy : cbs[w] = <<e>>
    /\ (destroyed /\ ticks = <<>> /\ inflight = <<>>) =>
          \A w \in 1..MaxWrites :
              written[w] # Undefined =>
                  /\ Len(cbs[w]) = 1
                  /\ cbs[w] = <<NoError>> => \E i \in 1..Len(sent) : sent[i] = Json(w)

\* C10 (amended): once destroy has been entered nothing more is passed to
\* connection.send; a write attempted afterwards completes with the error
\* node:stream gives a refused write (not a ClosedError), and the writes
\* still queued at destroy complete with an error.
C10_DestroyTerminal ==
    /\ []DestroyedWrites
    /\ [][destroyed => sent' = sent]_vars

\* written to while CONNECTING, destroyed, written to again, and closed
C10_Witness ==
    /\ destroyed /\ ticks = <<>> /\ inflight = <<>>
    /\ WrittenConnecting # {}
    /\ WrittenAfterDestroy # {}
    /\ readyState = CLOSED

\* the connection fires 'close' in this step
CloseFires == readyState # CLOSED /\ readyState' = CLOSED

\* C11: a connection 'close' that fires while the engine is not in its
\* ending sequence destroys the stream as destroy() without error does: the
\* stream is destroyed in that turn, with no error, it goes on to emit
\* 'close', and it reports no 'error' event; a connection 'close' that
\* fires after the ending sequence has started does not destroy the stream.
C11_RemoteCloseDestroys ==
    /\ [][(CloseFires /\ ~ending) =>
              /\ destroyed'
              /\ ~destroyed => destroyArg' = Some(NoError)]_vars
    /\ [][(CloseFires /\ ending /\ ~destroyed) => ~destroyed']_vars
    /\ [](destroyArg = Some(NoError) => EventAt("error") = {})
    /\ (destroyArg = Some(NoError)) ~> emittedClose

\* the connection closed without having opened, under a stream that was
\* never ended: the destroy without error is the close handler's
C11_Witness ==
    /\ closedBeforeOpen # Undefined
    /\ ~wEnding
    /\ destroyArg = Some(NoError)
    /\ emittedClose

\* the text cannot be deserialized: deserialize throws or yields null
BadWire(d) == deserialize(d).threw \/ deserialize(d).out = Undefined

\* the error _messageHandler destroys the stream with for such a text
DeserializeFailure(d) ==
    IF deserialize(d).threw THEN ThrownByDeserializer ELSE DeserializeError

\* this step is the connection firing 'message' with text d
MessageStep(d) ==
    /\ readyState \in {OPEN, CLOSING}
    /\ nMsgs < MaxMsgs
    /\ \E snapshot \in BOOLEAN :
          Becomes(Dispatch([Cur EXCEPT !.nMsgs = @ + 1,
                                       !.snapshotDispatch = snapshot],
                           "message", d))

\* C12: a message whose deserialization throws or yields null, received
\* while the engine listens, delivers nothing downstream and destroys the
\* stream with the thrown error or with "Can't deserialize the value"; an
\* OPEN connection is closed in the same turn with 1011 / "stream error",
\* and every connection.close made for such a destroy carries 1011 /
\* "stream error" (neither error has a close code or reason of its own).
C12_BadMessageDestroys ==
    /\ [][\A d \in Wire(nMsgs + 1) :
            (BadWire(d) /\ InSeq(listeners["message"], MessageH) /\ MessageStep(d)) =>
                /\ delivered' = delivered
                /\ destroyed'
                /\ destroyArg' = Some(DeserializeFailure(d))
                /\ readyState = OPEN =>
                      /\ Len(closeCalls') = Len(closeCalls) + 1
                      /\ closeCalls'[Len(closeCalls')].code = Some(INTERNAL_ERROR_CODE)
                      /\ closeCalls'[Len(closeCalls')].reason = Some(INTERNAL_ERROR_REASON)
                      /\ closeCalls'[Len(closeCalls')].destroyArg = destroyArg']_vars
    /\ [](\A i \in 1..Len(closeCalls) :
            closeCalls[i].destroyArg \in {Some(ThrownByDeserializer), Some(DeserializeError)} =>
                /\ closeCalls[i].code = Some(1011)
                /\ closeCalls[i].reason = Some("stream error"))

\* a null message destroyed the stream and the connection was closed for it
C12_Witness ==
    /\ delivered = <<>>
    /\ nMsgs = 1
    /\ \E i \in 1..Len(closeCalls) : closeCalls[i].destroyArg = Some(DeserializeError)

\* the errors _write and _send give to a write's callback
SerializationErrors == {ThrownBySerializer, SerializeError}
WriteTimeErrors == SerializationErrors \cup {ClosedError}

\* the callback of write w has received the error er
CbGot(w, er) == InSeq(cbs[w], er)

\* the text of write w is in the pending queue
Queued(w) ==
    \E i \in 1..Len(pendingQueue.items) : pendingQueue.items[i].json = Json(w)

\* C13 as stated: a write-time error reaches that write's callback and
\* leaves the stream alive: the stream is not destroyed with the error and
\* the engine does not close the connection for it.
C13_WriteErrorNotFatal ==
    \A w \in 1..MaxWrites : \A er \in WriteTimeErrors :
        CbGot(w, er) =>
            /\ destroyArg # Some(er)
            /\ \A i \in 1..Len(closeCalls) : closeCalls[i].destroyArg # Some(er)

\* C13, as the code has it: a write whose callback received a write-time
\* error was neither sent nor left in the queue, and the stream is destroyed;
\* the turn that gives such an error to a callback of a stream not yet
\* destroyed destroys the stream, with that very error when it is a
\* serialization error, and an OPEN connection is then closed by the engine
\* with 1011 / "stream error".
C13_WriteErrorDestroys ==
    /\ [](\A w \in 1..MaxWrites : \A er \in WriteTimeErrors :
            CbGot(w, er) =>
                /\ ~InSeq(sent, Json(w))
                /\ ~Queued(w)
                /\ destroyed)
    /\ [][\A w \in 1..MaxWrites : \A er \in WriteTimeErrors :
            (~destroyed /\ ~CbGot(w, er) /\ CbGot(w, er)') =>
                /\ destroyed'
                /\ er \in SerializationErrors =>
                      /\ destroyArg' = Some(er)
                      /\ readyState = OPEN =>
                            /\ Len(closeCalls') = Len(closeCalls) + 1
                            /\ closeCalls'[Len(closeCalls')].code = Some(1011)
                            /\ closeCalls'[Len(closeCalls')].reason = Some("stream error")]_vars

\* a value that cannot be serialized was written to an OPEN connection: its
\* callback has the thrown error and the engine closed the connection for it
C13_Witness ==
    \E w \in 1..MaxWrites :
        /\ CbGot(w, ThrownBySerializer)
        /\ destroyArg = Some(ThrownBySerializer)
        /\ \E i \in 1..Len(closeCalls) :
              closeCalls[i].destroyArg = Some(ThrownBySerializer)

\* this step is the application's call of stream.write
WriteStep == nextW' = nextW + 1

\* the stream hands a write it is given straight to _write
HandsOver == ~destroyed /\ ~wEnding /\ writecb = 0 /\ errored = NoError

\* the failure of write w with ClosedError awaits its process.nextTick turn
PendingClosed(w) ==
    \E i \in 1..Len(ticks) :
        ticks[i] = [t |-> "onwriteError", er |-> ClosedError, wid |-> w]

\* C14 as stated: every stream.write made while the connection is CLOSING or
\* CLOSED is failed in that call with the error named 'Error [ERR_CLOSED]'
\* (for values that can be serialized, on a stream end() was not called on).
C14_ClosedStatusFailsClosed ==
    [][(/\ WriteStep
        /\ readyState \in {CLOSING, CLOSED}
        /\ ~wEnding
        /\ written'[nextW][1].value \notin {Some(Cyclic), Some(JsUndefined)}) =>
          \E i \in 1..Len(ticks') :
              /\ ticks'[i].t \in {"onwriteError", "writeCb"}
              /\ ticks'[i].wid = nextW
              /\ ticks'[i].er = ClosedError]_vars

\* C14, as the code has it: a serializable value written while the
\* connection is CLOSING or CLOSED, on a stream that hands it to _write, is
\* failed in that call with the error named 'Error [ERR_CLOSED]' and the
\* message 'WebSocket CLOSING or CLOSED.': connection.send is not called,
\* no listener is attached, nothing is queued, and its callback then receives
\* that error and nothing else. On a destroyed stream that was not ended the
\* write does not reach the engine: nothing is sent or attached either, and
\* the failure it is given is the framework's ERR_STREAM_DESTROYED.
C14_ClosedWriteFails ==
    /\ [][(/\ WriteStep
           /\ readyState \in {CLOSING, CLOSED}
           /\ HandsOver
           /\ written'[nextW] = Some([value |-> Some(Obj(nextW)), when |-> "other"])) =>
              /\ sent' = sent
              /\ inflight' = inflight
              /\ listeners' = listeners
              /\ pendingQueue' = pendingQueue
              /\ ticks' = Append(ticks, [t |-> "onwriteError", er |-> ClosedError,
                                         wid |-> nextW])]_vars
    /\ [][\A w \in 1..MaxWrites :
            (PendingClosed(w) /\ cbs[w] = <<>> /\ cbs'[w] # <<>>) =>
                cbs'[w] = <<ClosedError>>]_vars
    /\ [][(WriteStep /\ readyState \in {CLOSING, CLOSED} /\ destroyed /\ ~wEnding) =>
              /\ sent' = sent
              /\ inflight' = inflight
              /\ listeners' = listeners
              /\ pendingQueue' = pendingQueue
              /\ ticks' = Append(ticks, [t |-> "writeCb", er |-> ERR_STREAM_DESTROYED,
                                         wid |-> nextW])]_vars
    /\ [](ClosedError.name = "Error [ERR_CLOSED]"
          /\ ClosedError.message = "WebSocket CLOSING or CLOSED.")

\* the only write so far was made after the connection left OPEN and its
\* callback has the closed error
C14_Witness ==
    /\ nextW = 2
    /\ written[1] = Some([value |-> Some(Obj(1)), when |-> "other"])
    /\ cbs[1] = <<ClosedError>>
    /\ sent = <<>>

\* the values as their JSON texts
TextOf(values) == [i \in 1..Len(values) |-> Json(values[i].msg)]

DataOf(msgs) == [i \in 1..Len(msgs) |-> msgs[i].data]

\* a valid message received by a stream that was not destroyed
ValidLive(m) == ~BadWire(m.data) /\ m.live

\* ... and on which no write had failed
ValidHealthy(m) == ~BadWire(m.data) /\ m.live /\ ~m.failed

\* C15 as stated: on a stream that has not been destroyed, the values given
\* to the consumer followed by those waiting in the buffer are the valid
\* messages received, in order of receipt, none lost or duplicated.
C15_InOrderNoLoss ==
    ~destroyed =>
        TextOf(consumed \o rbuf) = DataOf(SelectSeq(received, ValidLive))

\* C15, as the code has it: on a stream that has not been destroyed, the
\* values given to the consumer followed by those waiting in the buffer are,
\* in order of receipt and each once, the valid messages received while no
\* write had failed; a message received after a write failed is dropped.
C15_InOrderUnlessFailed ==
    ~destroyed =>
        TextOf(consumed \o rbuf) = DataOf(SelectSeq(received, ValidHealthy))

\* MaxReads valid messages were received and handed to the consumer
C15_Witness ==
    /\ ~destroyed
    /\ Len(consumed) = MaxReads
    /\ TextOf(consumed) = DataOf(received)

\* this step runs resume_, the task stream.resume() scheduled
ResumeTurn ==
    /\ ticks # <<>>
    /\ Head(ticks).t = "resume_"
    /\ nMsgs' = nMsgs
    /\ ticks' = Tail(ticks)

IsForeign(h) == h.k = "foreign"

\* C17: on a connection shared with other consumers, whatever the engine
\* does (construction, write, end, destroy, 'open', 'close' and 'message'
\* events, deferred turns), the listeners the others registered for
\* 'message', 'open' and 'close' stay registered, each once and in their
\* order; and once the stream has emitted 'close' they are the only ones.
C17_ForeignListenersKept ==
    /\ \A type \in {"message", "open", "close"} :
          SelectSeq(listeners[type], IsForeign) = <<ForeignH(1), ForeignH(2)>>
    /\ emittedClose =>
          \A type \in {"message", "open", "close"} :
              listeners[type] = <<ForeignH(1), ForeignH(2)>>

\* the engine queued writes behind 'open' listeners, was destroyed and has
\* emitted 'close'
C17_Witness ==
    /\ emittedClose
    /\ destroyed
    /\ \E w \in 1..MaxWrites :
          written[w] # Undefined /\ written[w][1].when = "connecting"
    /\ listeners["close"] = <<ForeignH(1), ForeignH(2)>>

\* C18: every send(payload, onComplete) calls onComplete exactly once, with
\* no error when the native write / emit returned and with the thrown error
\* when it threw, and send itself does not throw.
C18_SendCompletesOnce ==
    (observed.send # Undefined /\ observed.send[1].cb # "none") =>
        /\ observed.send[1].result.calls =
               << IF observed.send[1].nativeThrows THEN NativeError ELSE NoError >>
        /\ ~observed.send[1].result.threw

\* C19: a native event calls exactly the handlers that were added and not
\* removed since: none that removeEventListener was called for, all others.
C19_RemovedNotInvoked ==
    (observed.event # Undefined /\ observed.event[1].type # "open") =>
        { observed.event[1].invoked[i] : i \in 1..Len(observed.event[1].invoked) }
            = observed.registered[observed.event[1].type]

\* C20: after clearAllListeners, and until a handler is added again, the
\* wrapped connection has no native listener left, and a native event calls
\* no handler.
C20_ClearedMeansNone ==
    observed.cleared =>
        /\ adapter.conn = NewAdapter(adapter.kind).conn
        /\ observed.event # Undefined => observed.event[1].invoked = <<>>

\* C21: whenever the Socket.IO adapter's status is read, it is OPEN (1)
\* exactly when the socket's connected flag is true and CLOSED (3) exactly
\* when it is false; it is never CONNECTING or CLOSING.
C21_StatusFollowsConnected ==
    observed.status # Undefined =>
        /\ (observed.status[1].value = OPEN) <=> observed.status[1].connected
        /\ (observed.status[1].value = CLOSED) <=> ~observed.status[1].connected
        /\ observed.status[1].value \notin {CONNECTING, CLOSING}

C21_Witness ==
    /\ observed.status # Undefined
    /\ ~observed.status[1].connected
    /\ observed.status[1].value = CLOSED

\* a step that is addEventListener('open', h)
AddsOpen ==
    \E h \in Handlers :
        /\ adapter' = Adapter_addEventListener(adapter, "open", h)
        /\ observed'.registered.open = observed.registered.open \cup {h}
        /\ observed'.registered.message = observed.registered.message
        /\ observed'.registered.close = observed.registered.close

\* C22: on both adapters addEventListener('open', h) registers no native
\* listener on the wrapped connection, and whatever native events follow,
\* the native connect event calls no handler.
C22_OpenListenerIsNoOp ==
    /\ [][AddsOpen => adapter'.conn = adapter.conn]_vars
    /\ [](adapter.conn.open = <<>>)
    /\ []((observed.event # Undefined /\ observed.event[1].type = "open")
             => observed.event[1].invoked = <<>>)

C22_Witness ==
    /\ observed.registered.open # {}
    /\ observed.event # Undefined
    /\ observed.event[1].type = "open"
    /\ observed.event[1].invoked = <<>>

\* the number of detectors that answered true
Matches(d) ==
    Cardinality({f \in {"ws", "sockjs", "socketio"} : d[f]})

\* C23: for every connection object (every combination of present, absent
\* and mistyped properties, null and primitives included), at most one of
\* isWebSocketLike, isSockJSNodeConnection and isSocketIOSocket is true.
C23_SignaturesExclusive ==
    classified.detected # Undefined => Matches(classified.detected[1]) <= 1

\* an object with every property of all three families but send and
\* addEventListener is detected as a SockJS connection only
C23_Witness ==
    /\ classified.detected # Undefined
    /\ Matches(classified.detected[1]) = 1
    /\ classified.detected[1].sockjs
    /\ classified.ws.removeEventListener = "function"
    /\ classified.ws.emit = "function"
    /\ classified.ws.id = "string"

\* what structural detection selects: the first family, in the order raw
\* WebSocket, SockJS node, Socket.IO, whose signature the object matches
ByDetection(ws) ==
    IF isWebSocketLike(ws) THEN ReturnsSame(ws)
    ELSE IF isSockJSNodeConnection(ws) THEN ReturnsNew("SockJSNodeAdapter", ws)
    ELSE IF isSocketIOSocket(ws) THEN ReturnsNew("SocketIOAdapter", ws)
    ELSE Throws(UnsupportedError)

AdaptedWith(args) ==
    /\ classified.adapted # Undefined
    /\ classified.adapted[1].arg \in args

\* C24 as stated: with adapterType 'auto' or omitted, adaptWebSocket
\* selects by structural detection.
C24_AutoOrAbsentDetects ==
    AdaptedWith({Undefined, Some("auto")}) =>
        classified.adapted[1].result = ByDetection(classified.ws)

\* C24: with adapterType 'auto' adaptWebSocket selects by structural
\* detection in the order raw WebSocket, SockJS node, Socket.IO; with the
\* argument omitted it is 'ws': the object is returned as it is, whatever
\* its shape.
C24_AutoDetectsAbsentTrusts ==
    /\ AdaptedWith({Some("auto")}) =>
           classified.adapted[1].result = ByDetection(classified.ws)
    /\ AdaptedWith({Undefined}) =>
           classified.adapted[1].result = ReturnsSame(classified.ws)

C24_Witness ==
    /\ AdaptedWith({Some("auto")})
    /\ classified.ws = SocketIOSocket
    /\ classified.adapted[1].result = ReturnsNew("SocketIOAdapter", SocketIOSocket)

\* C25: with adapterType 'ws', 'sockjs-node' or 'socketio' the shape is
\* not looked at: 'ws' returns the object itself, 'sockjs-node' a new
\* SockJSNodeAdapter around it, 'socketio' a new SocketIOAdapter around it.
C25_ExplicitTypeTrusted ==
    /\ AdaptedWith({Some("ws")}) =>
           classified.adapted[1].result = ReturnsSame(classified.ws)
    /\ AdaptedWith({Some("sockjs-node")}) =>
           classified.adapted[1].result =
               ReturnsNew("SockJSNodeAdapter", classified.ws)
    /\ AdaptedWith({Some("socketio")}) =>
           classified.adapted[1].result =
               ReturnsNew("SocketIOAdapter", classified.ws)

\* a Socket.IO adapter is built around an object that is a raw WebSocket
C25_Witness ==
    /\ AdaptedWith({Some("socketio")})
    /\ classified.ws = StandardWebSocket
    /\ classified.adapted[1].result.is = "SocketIOAdapter"

NoFamilyMatches(ws) ==
    ~isWebSocketLike(ws) /\ ~isSockJSNodeConnection(ws) /\ ~isSocketIOSocket(ws)

\* C26: 'auto' on an object that matches no signature throws the
\* 'Unsupported WebSocket type...' error, an adapterType outside the known
\* ones throws 'Unknown adapter type: ...'; nothing is returned then.
C26_FailsLoudly ==
    /\ (AdaptedWith({Some("auto")}) /\ NoFamilyMatches(classified.ws)) =>
           /\ classified.adapted[1].result.threw = UnsupportedError
           /\ classified.adapted[1].result.is = "nothing"
    /\ AdaptedWith({Some("unknown")}) =>
           /\ classified.adapted[1].result.threw.message =
                  "Unknown adapter type: unknown"
           /\ classified.adapted[1].result.is = "nothing"

\* the incomplete object of the tests (a status and nothing else) under 'auto'
C26_Witness ==
    /\ AdaptedWith({Some("auto")})
    /\ classified.ws = [NoProperties EXCEPT !.readyState = "number"]
    /\ classified.adapted[1].result = Throws(UnsupportedError)

C26_WitnessUnknown ==
    /\ AdaptedWith({Some("unknown")})
    /\ classified.ws = StandardWebSocket
    /\ classified.adapted[1].result.threw # NoError

IsQueueListener(h) == h = ProcessQueueH

\* the pending-queue listeners attached to an event of the connection
QueueListeners(type) == Len(SelectSeq(listeners[type], IsQueueListener))

\* C27: however many writes are issued while CONNECTING, the connection
\* carries at most one pending-queue listener on 'open' and at most one on
\* 'close'; while writes are queued it carries exactly that pair, and once
\* the queue is drained, or the stream destroyed, it carries none.
C27_SingleQueueListenerPair ==
    /\ QueueListeners("open") <= 1
    /\ QueueListeners("close") <= 1
    /\ QueueListeners("message") = 0
    /\ ~pendingQueue.isNull =>
           QueueListeners("open") = 1 /\ QueueListeners("close") = 1
    /\ (pendingQueue.isNull \/ destroyed) =>
           QueueListeners("open") = 0 /\ QueueListeners("close") = 0

\* two writes issued while CONNECTING, one listener pair
C27_Witness ==
    /\ Cardinality(WrittenConnecting) = MaxWrites
    /\ readyState = CONNECTING
    /\ ~pendingQueue.isNull
    /\ QueueListeners("open") = 1
    /\ QueueListeners("close") = 1

\* the queue of two writes has been drained by 'open' and the pair is gone
C27_WitnessDrained ==
    /\ Cardinality(WrittenConnecting) = MaxWrites
    /\ readyState = OPEN
    /\ sent # <<>>
    /\ pendingQueue.isNull
    /\ QueueListeners("open") = 0

IsShutdownListener(h) == h.k = "closeWs"

\* the shutdown listeners attached to an event of the connection
ShutdownListeners(type) == SelectSeq(listeners[type], IsShutdownListener)

\* the listener a handler field refers to, if any
Attached(handler) == IF handler = Null THEN <<>> ELSE <<handler>>

\* C28: under any interleaving of end(), destroy() after end(), 'open' and
\* 'close', the connection carries at most one shutdown listener on
\* 'close' and at most one on 'open', and they are those of the latest
\* shutdown request (the ones _closeWsCloseHandler and _closeWsOpenHandler
\* refer to): an earlier request's listeners are gone.
C28_OneShutdownSequence ==
    /\ Len(ShutdownListeners("close")) <= 1
    /\ Len(ShutdownListeners("open")) <= 1
    /\ ShutdownListeners("message") = <<>>
    /\ ShutdownListeners("close") = Attached(closeWsCloseHandler)
    /\ ShutdownListeners("open") = Attached(closeWsOpenHandler)

\* destroy() after end(): the only shutdown listener waiting for 'close'
\* is the one of destroy's request
C28_Witness ==
    /\ finalCalled
    /\ destroyed
    /\ Len(ShutdownListeners("close")) = 1
    /\ ShutdownListeners("close")[1].callback.fn = "destroy"

\* the writes the stream accepted: issued before end() and before destroy
AcceptedWrites ==
    {w \in 1..MaxWrites : written[w] # Undefined /\ written[w][1].value # Undefined}

\* the engine's connection.close(1000, "stream end") calls
EndCloseCalls ==
    {i \in 1..Len(closeCalls) :
        /\ closeCalls[i].code = Some(NORMAL_CLOSURE_CODE)
        /\ closeCalls[i].reason = Some(NORMAL_CLOSURE_REASON)}

\* C29: the end-of-writes shutdown (_final) starts only when no write is
\* outstanding (none handed to _write without its completion, none
\* buffered, none queued for 'open', none in the transport), and by the
\* time connection.close(1000, "stream end") has been called every write
\* issued before end() has been passed to connection.send, once each and
\* in the order of the writes.
C29_WritesBeforeEndSent ==
    /\ finalCalled =>
           /\ writecb = 0
           /\ buffered = <<>>
           /\ pendingQueue.isNull
           /\ inflight = <<>>
    /\ EndCloseCalls # {} =>
           /\ \A w \in AcceptedWrites : written[w][1].value = Some(Obj(w))
           /\ sent = [i \in 1..Cardinality(AcceptedWrites) |-> Json(i)]

\* two writes issued while CONNECTING, then end(): both were sent before
\* the close call
C29_Witness ==
    /\ EndCloseCalls # {}
    /\ Cardinality(WrittenConnecting) = MaxWrites
    /\ Len(sent) = MaxWrites

\* the stream was destroyed with an error: by the application's
\* destroy(error), or by the stream itself after a failed write or message
DestroyedWithError == destroyArg # Undefined /\ destroyArg # Some(NoError)

\* C30: the stream emits 'error' at most once, only with the error destroy
\* was called with, and only when the connection is CLOSED and _destroy's
\* callback has been called; and once the connection is CLOSED and the
\* deferred turns have run, a destroy with an error has been reported.
C30_ErrorAfterClosed ==
    /\ Cardinality(EventAt("error")) <= 1
    /\ \A i \in EventAt("error") :
          /\ destroyArg = Some(events[i].error)
          /\ readyState = CLOSED
          /\ destroyCbCalled
    /\ (DestroyedWithError /\ readyState = CLOSED /\ ticks = <<>>) =>
          EventAt("error") # {}

\* destroy(error) on a stream that a failed write had already put in
\* error: the error reported is destroy's, with the connection CLOSED
C30_Witness ==
    /\ EventAt("error") # {}
    /\ destroyArg \in {Some(e) : e \in AppErrors}
    /\ errored \notin AppErrors
    /\ closeCalls # <<>>
    /\ readyState = CLOSED

\* the deferred halves of the CLOSED branch that are still to run
ClosedTicks == {i \in 1..Len(ticks) : ticks[i].t = "closed"}

\* this step calls a completion callback or emits 'close'
Completes ==
    \/ finalCbCalled' # finalCbCalled
    \/ destroyCbCalled' # destroyCbCalled
    \/ emittedClose' # emittedClose

\* this step is the deferred half of the CLOSED branch running
ClosedTickRuns ==
    /\ ticks # <<>>
    /\ Head(ticks).t = "closed"
    /\ RunTick

\* C31: when _closeWebSocket finds the connection CLOSED, the engine's
\* message and close listeners are detached at once (they are gone while
\* the deferred half is still to run); a completion callback is called and
\* 'close' is emitted only in that deferred turn, never inside end(),
\* destroy() or a dispatch of the connection; and when 'close' is emitted
\* the completion callback has already been called.
C31_ClosedBranchDefers ==
    /\ [](ClosedTicks # {} =>
             /\ ~InSeq(listeners.message, MessageH)
             /\ ~InSeq(listeners.close, CloseH))
    /\ [][Completes => ClosedTickRuns]_vars
    /\ [](\A i \in EventAt("close") : events[i].after)

\* end() on a connection that closes: _final's callback was called in the
\* deferred turn and 'close' emitted after it
C31_Witness ==
    /\ finalCbCalled
    /\ ~destroyed
    /\ EventAt("close") # {}
    /\ \A i \in EventAt("close") : events[i].after

\* this step is stream.write of a serializable value, on a stream that hands
\* it to _write, while the connection reports an unknown status
WriteAtUnexpected ==
    /\ WriteStep
    /\ readyState = UNEXPECTED
    /\ HandsOver
    /\ written'[nextW] = Some([value |-> Some(Obj(nextW)), when |-> "other"])

\* the failures queued for write w
FailuresOf(w, queue) ==
    {queue[i].er : i \in {j \in 1..Len(queue) :
                             queue[j].t = "onwriteError" /\ queue[j].wid = w}}

\* C32 as stated: a write issued while the connection reports a status
\* outside the four is failed with an error other than the closed error.
C32_UnexpectedStatusOwnError ==
    [][WriteAtUnexpected =>
          /\ FailuresOf(nextW, ticks') # {}
          /\ ClosedError \notin FailuresOf(nextW, ticks')]_vars

\* C32, as the code has it: _send tells CONNECTING and OPEN apart and
\* treats every other status alike, so a write issued under an unknown
\* status is failed in that call with the same 'Error [ERR_CLOSED]' /
\* 'WebSocket CLOSING or CLOSED.' error as under CLOSING or CLOSED; nothing
\* is sent, queued or attached.
C32_UnexpectedStatusClosedError ==
    [][WriteAtUnexpected =>
          /\ FailuresOf(nextW, ticks') = {ClosedError}
          /\ sent' = sent
          /\ inflight' = inflight
          /\ listeners' = listeners
          /\ pendingQueue' = pendingQueue]_vars

\* the write made under the unknown status got the closed error, and the
\* stream was destroyed with it
C32_Witness ==
    /\ readyState = UNEXPECTED
    /\ \E w \in 1..MaxWrites : cbs[w] = <<ClosedError>>
    /\ destroyArg = Some(ClosedError)
    /\ sent = <<>>

\* this step starts a shutdown sequence: the stream framework calls _final
\* or _destroy
ShutdownStarts ==
    \/ ~finalCalled /\ finalCalled'
    \/ ~destroyed /\ destroyed'

\* the failures of a completion callback still to be delivered
UnexpectedTicks(queue) == {i \in 1..Len(queue) : queue[i].t = "unexpected"}

\* this step delivers the failure to _final's callback
FinalFailed ==
    /\ ticks # <<>>
    /\ Head(ticks) = [t |-> "unexpected", callback |-> FinalCb]
    /\ RunTick

\* C33: when a shutdown sequence starts while the connection reports a
\* status outside the four, that call does not call connection.close,
\* attaches no shutdown listener and calls no completion callback; it
\* queues the failure of the callback with 'Unexpected readyState' for a
\* later turn.  For end(), on a stream not destroyed meanwhile, that
\* failure destroys the stream with this error, and the stream reports it
\* as its 'error'.
C33_UnexpectedStatusShutdown ==
    /\ [][(ShutdownStarts /\ readyState = UNEXPECTED /\ readyState' = UNEXPECTED) =>
              /\ closeCalls' = closeCalls
              /\ \A type \in {"message", "open", "close"} :
                    ShutdownListeners(type)' = <<>>
              /\ ticks' # <<>>
              /\ ticks'[Len(ticks')].t = "unexpected"
              /\ ~finalCalled => (finalCbCalled' = finalCbCalled)
              /\ ~destroyed => ~destroyCbCalled']_vars
    /\ [][(FinalFailed /\ ~destroyed) =>
              /\ finalCbCalled'
              /\ destroyArg' = Some(UnexpectedReadyState)
              /\ EventAt("finish")' = {}]_vars
    /\ [](UnexpectedReadyState.message = "Unexpected readyState")
    /\ []((destroyArg = Some(UnexpectedReadyState) /\ ticks = <<>>) =>
             \E i \in EventAt("error") : events[i].error = UnexpectedReadyState)

\* end() under the unknown status: no close call, and the stream has
\* reported 'Unexpected readyState'
C33_Witness ==
    /\ readyState = UNEXPECTED
    /\ finalCbCalled
    /\ closeCalls = <<>>
    /\ \E i \in EventAt("error") : events[i].error = UnexpectedReadyState

\* a completion of write w awaits its process.nextTick turn
TickFor(w) ==
    \E i \in 1..Len(ticks) :
        /\ ticks[i].t \in {"onwriteError", "afterWrite", "writeCb"}
        /\ ticks[i].wid = w

\* write w is buffered by the stream framework, not yet given to the engine
Buffered(w) == \E i \in 1..Len(buffered) : buffered[i].wid = w

\* C34: the completion callback of a write placed in the pending queue is
\* invoked exactly once.  While the write is queued its callback has not
\* been invoked and its text has not been sent.  The step that takes it out
\* of the queue (the drain at 'open' or 'close', or destroy) either passes
\* text and callback to connection.send, where the callback completes once,
\* or fails the callback with the closed error without sending.  No
\* callback gets two results, the framework never sees a callback called
\* multiple times, and a write made while CONNECTING that is with nobody
\* any more has exactly one result.
C34_QueuedCallbackOnce ==
    /\ [](\A w \in 1..MaxWrites :
            Queued(w) =>
                /\ writecb = w
                /\ cbs[w] = <<>>
                /\ ~TickFor(w)
                /\ ~InSeq(sent, Json(w)))
    /\ [][\A w \in 1..MaxWrites :
            (Queued(w) /\ ~Queued(w)') =>
                \/ /\ InSeq(sent', Json(w))
                   /\ \/ cbs'[w] = <<NoError>> /\ writecb' # w
                      \/ cbs'[w] = <<>> /\ writecb' = w /\ Len(inflight') = 1
                \/ /\ ~InSeq(sent', Json(w))
                   /\ cbs'[w] = <<ClosedError>>
                   /\ writecb' # w]_vars
    /\ [](\A w \in 1..MaxWrites : Len(cbs[w]) <= 1)
    /\ [](/\ destroyArg # Some(ERR_MULTIPLE_CALLBACK)
          /\ errored # ERR_MULTIPLE_CALLBACK)
    /\ [](\A w \in 1..MaxWrites :
            (/\ written[w] # Undefined
             /\ written[w][1].when = "connecting"
             /\ ~Queued(w)
             /\ ~Buffered(w)
             /\ writecb # w
             /\ ~TickFor(w)) => Len(cbs[w]) = 1)

\* a write was queued and the connection closed without opening; the
\* stream's close handler destroyed the stream, and the write has the closed
\* error as its one result
C34_Witness ==
    \E w \in 1..MaxWrites :
        /\ closedBeforeOpen # Undefined
        /\ w \in closedBeforeOpen[1]
        /\ written[w] = Some([value |-> Some(Obj(w)), when |-> "connecting"])
        /\ destroyed
        /\ cbs[w] = <<ClosedError>>

\* a queued write was sent at 'open' and its callback completed once
C34_WitnessSent ==
    \E w \in 1..MaxWrites :
        /\ written[w] = Some([value |-> Some(Obj(w)), when |-> "connecting"])
        /\ InSeq(sent, Json(w))
        /\ cbs[w] = <<NoError>>

\* end() started its shutdown and destroy was called after it, all while the
\* connection is CONNECTING
DestroyedOverPendingEnd ==
    /\ readyState = CONNECTING
    /\ finalCalled
    /\ destroyed

\* the close call destroy(error) asks for
DestroyAsksFor(call, error) ==
    IF error = NoError
    THEN call.code = Undefined /\ call.reason = Undefined
    ELSE /\ call.code = IF error.closeCode = Undefined THEN Some(1011)
                        ELSE error.closeCode
         /\ call.reason = IF error.closeReason = Undefined THEN Some("stream error")
                          ELSE error.closeReason

\* C35: destroy supersedes a pending end.  When end() has started its
\* shutdown on a CONNECTING connection and destroy()/destroy(error) was
\* called before the connection opened, the turn in which it opens makes
\* the first and only call of connection.close, with no code and reason
\* after a bare destroy and with 1011 / "stream error" or the error's own
\* closeCode / closeReason otherwise; no later turn adds a call, and no
\* call carries 1000 / "stream end".
C35_DestroySupersedesEnd ==
    /\ [](DestroyedOverPendingEnd => closeCalls = <<>> /\ destroyArg # Undefined)
    /\ [][(DestroyedOverPendingEnd /\ readyState' \in {OPEN, CLOSING}) =>
              /\ Len(closeCalls') = 1
              /\ closeCalls'[1].during = "open"
              /\ DestroyAsksFor(closeCalls'[1], destroyArg[1])
              /\ closeCalls'[1].code # Some(1000)
              /\ closeCalls'[1].reason # Some("stream end")]_vars
    /\ []((/\ finalCalled
           /\ closeCalls # <<>>
           /\ closeCalls[1].during = "open"
           /\ closeCalls[1].destroyArg # Undefined) =>
              /\ Len(closeCalls) = 1
              /\ DestroyAsksFor(closeCalls[1], destroyArg[1]))

\* end() and then destroy(error) with an error of its own close code, both
\* before 'open': the connection was closed once, with that code
C35_Witness ==
    /\ finalCalled
    /\ ~finalCbCalled
    /\ readyState = CLOSED
    /\ destroyArg = Some(MkError("Error", "app", Some(4000), Undefined))
    /\ closeCalls = << [code |-> Some(4000), reason |-> Some("stream error"),
                        destroyArg |-> destroyArg, during |-> "open"] >>

\* end() and then a bare destroy(), both before 'open': the connection was
\* closed once, without code and reason
C35_WitnessBare ==
    /\ finalCalled
    /\ destroyArg = Some(NoError)
    /\ closeCalls = << [code |-> Undefined, reason |-> Undefined,
                        destroyArg |-> destroyArg, during |-> "open"] >>

\* the invocation of _final's callback awaits its process.nextTick turn
FinalCbScheduled ==
    \E i \in 1..Len(ticks) :
        ticks[i].t \in {"closed", "unexpected"} /\ ticks[i].callback = FinalCb

\* end()'s shutdown was overtaken by destroy: _final was called, its
\* callback was not, and nothing is left that would call it
EndOvertaken ==
    /\ finalCalled
    /\ destroyed
    /\ ~finalCbCalled
    /\ ~FinalCbScheduled

\* this step destroys the stream while end()'s shutdown waits for a
\* connection that is not CLOSED
DestroyedWhileEndWaits ==
    /\ finalCalled
    /\ ~finalCbCalled
    /\ readyState # CLOSED
    /\ readyState' # CLOSED
    /\ ~destroyed
    /\ destroyed'

\* C36: when the stream is destroyed while the shutdown started by end()
\* still waits for the connection to reach CLOSED, _final's callback is
\* never invoked afterwards and 'finish' is never emitted; destroy's
\* shutdown runs instead: once the connection is CLOSED and nothing is
\* pending, _destroy's callback has been invoked and 'close' has been
\* emitted exactly once.
C36_DestroyedEndNeverFinishes ==
    /\ [][DestroyedWhileEndWaits => EndOvertaken']_vars
    /\ [][EndOvertaken => EndOvertaken']_vars
    /\ [](EndOvertaken =>
             /\ EventAt("finish") = {}
             /\ ~finished
             /\ (readyState = CLOSED /\ ticks = <<>>) =>
                    /\ destroyCbCalled
                    /\ Cardinality(EventAt("close")) = 1)

\* end() and then destroy() on an open connection; the connection has
\* closed since, _destroy's callback ran, _final's did not, 'close' went out
C36_Witness ==
    /\ EndOvertaken
    /\ closeCalls # <<>>
    /\ closeCalls[1].code = Some(NORMAL_CLOSURE_CODE)
    /\ readyState = CLOSED
    /\ ticks = <<>>
    /\ destroyCbCalled
    /\ Cardinality(EventAt("close")) = 1

\* C37: on a connection whose status leaves OPEN inside close() and never
\* comes back to OPEN, the engine calls connection.close at most once in
\* the life of the stream, whatever the order of end(), destroy(), 'open'
\* and the remote close.  Every call is made on a connection that was OPEN
\* or has just opened, and leaves it CLOSING; an end() after the first is
\* without effect.
C37_CloseCalledAtMostOnce ==
    /\ [](Len(closeCalls) <= 1)
    /\ [][closeCalls' # closeCalls =>
              /\ closeCalls = <<>>
              /\ Len(closeCalls') = 1
              /\ readyState \in {CONNECTING, OPEN}
              /\ readyState' = CLOSING]_vars
    /\ [][readyState # OPEN => readyState' # OPEN \/ readyState = CONNECTING]_vars
    /\ [](wEnding => end(Cur) = Cur)

\* end() closed the open connection, the stream was destroyed with an error
\* while it was CLOSING, and the remote close came: one call of close
C37_Witness ==
    /\ finalCalled
    /\ destroyed
    /\ destroyArg # Some(NoError)
    /\ readyState = CLOSED
    /\ Len(closeCalls) = 1
    /\ closeCalls[1].destroyArg = Undefined

\* the engine's message listener is registered on the connection
Listening == InSeq(listeners["message"], MessageH)

\* C38: the call that destroys the stream takes the engine's message
\* listener off the connection, whatever the connection's status, so a
\* destroyed stream never listens; a message the connection fires after
\* that reaches no handler: nothing is delivered downstream, buffered or
\* consumed, and no error, event or task comes of it, even for a text that
\* cannot be deserialized.  After end(), while the stream is not destroyed
\* and the connection not CLOSED, the listener stays, and a message with a
\* proper value is delivered downstream.
C38_NoMessagesAfterDestroy ==
    /\ [][(~destroyed /\ destroyed') => ~Listening']_vars
    /\ [](destroyed => ~Listening)
    /\ [][\A d \in Wire(nMsgs + 1) :
            (destroyed /\ MessageStep(d)) =>
                /\ delivered' = delivered
                /\ rbuf' = rbuf
                /\ consumed' = consumed
                /\ events' = events
                /\ ticks' = ticks
                /\ errored' = errored
                /\ destroyArg' = destroyArg]_vars
    /\ []((wEnding /\ ~destroyed /\ readyState # CLOSED) => Listening)
    /\ [][\A d \in Wire(nMsgs + 1) :
            (/\ wEnding
             /\ ~destroyed
             /\ errored = NoError
             /\ ~BadWire(d)
             /\ MessageStep(d)) =>
                delivered' = Append(delivered, deserialize(d).out[1])]_vars

\* destroy() on a connection that is not yet CLOSED, then a message: the
\* stream delivered nothing
C38_Witness ==
    /\ destroyArg = Some(NoError)
    /\ errored = NoError
    /\ readyState = CLOSING
    /\ nMsgs = 1
    /\ delivered = <<>>
    /\ ~Listening

\* end() on an open connection, then a message before CLOSED: delivered
C38_WitnessEnd ==
    /\ finalCalled
    /\ ~destroyed
    /\ readyState = CLOSING
    /\ closeCalls # <<>>
    /\ nMsgs = 1
    /\ delivered = << Obj(1) >>
====
